---- MODULE Spec2Model ----
(***************************************************************************)
(* A model of the company-memo pipeline of loadupscott/ai-agent-learning:  *)
(* the basic command-line pipeline (src/analyst.py) and the richer         *)
(* Streamlit pipeline (src/deal_flow_app.py).                              *)
(*                                                                         *)
(* Representation of Python values.                                        *)
(*   - A Python str is a sequence of atoms.  An atom is a TLA+ string that *)
(*     stands either for a run of ASCII characters ("Strengths", "- ") or  *)
(*     for ONE non-ASCII character, named by its code point ("U+2022").    *)
(*     The empty str is << >>.                                             *)
(*   - A dynamically typed value (a JSON value, an optional) is a tagged   *)
(*     record: PyNone, Str(s), List(xs), Num(n), Dict(d).                  *)
(*   - A dict is a function whose DOMAIN is the set of keys present.       *)
(***************************************************************************)
EXTENDS Integers, Sequences, FiniteSets, TLC

\* ------------------------------------------------------------------ bounds
\* Longest input string of the sanitize_text enumeration.
MaxLen == 2
\* Longest list of an AnalysisResult list field.
MaxItems == 2
\* Most keys absent at once from an enumerated AnalysisResult.
MaxAbsent == 2

\* ----------------------------------------------------------- Python values
PyNone == [t |-> "None"]
Str(s) == [t |-> "str", s |-> s]
List(xs) == [t |-> "list", xs |-> xs]
Num(n) == [t |-> "num", n |-> n]
Dict(d) == [t |-> "dict", d |-> d]

\* Python truthiness (`if x:`, `x or y`, `not x`).
Truthy(x) ==
    CASE x.t = "None" -> FALSE
      [] x.t = "str"  -> x.s # << >>
      [] x.t = "list" -> x.xs # << >>
      [] x.t = "num"  -> x.n # 0
      [] x.t = "dict" -> DOMAIN x.d # {}

\* dict.get(key, default) on a dict d (a function).
Get(d, key, default) == IF key \in DOMAIN d THEN d[key] ELSE default

\* str(x) and the "{x}" of an f-string.
py_str(x) ==
    CASE x.t = "None" -> <<"None">>
      [] x.t = "str"  -> x.s
      [] x.t = "num"  -> <<ToString(x.n)>>
      [] x.t = "list" -> <<"[...]">>
      [] x.t = "dict" -> <<"{...}">>

\* `for item in x` raises TypeError unless x is iterable.
Iterable(x) == x.t \in {"list", "str", "dict"}

\* The items a `for` loop visits (a str is visited character by character).
IterItems(x) ==
    CASE x.t = "list" -> x.xs
      [] x.t = "str"  -> [i \in 1..Len(x.s) |-> Str(<<x.s[i]>>)]
      [] OTHER        -> << >>

\* ------------------------------------------------------------- characters
\* Code points of the atoms that stand for one non-ASCII character.
CodePoint ==
    [a \in {"U+00A3", "U+00A5", "U+00E9", "U+00FF", "U+0100", "U+20AC", "U+4E2D",
            "U+2022", "U+2013", "U+2014", "U+2018", "U+2019",
            "U+201C", "U+201D", "U+2026"} |->
        CASE a = "U+00A3" -> 163
          [] a = "U+00A5" -> 165
          [] a = "U+00E9" -> 233
          [] a = "U+00FF" -> 255
          [] a = "U+0100" -> 256
          [] a = "U+20AC" -> 8364
          [] a = "U+4E2D" -> 20013
          [] a = "U+2022" -> 8226
          [] a = "U+2013" -> 8211
          [] a = "U+2014" -> 8212
          [] a = "U+2018" -> 8216
          [] a = "U+2019" -> 8217
          [] a = "U+201C" -> 8220
          [] a = "U+201D" -> 8221
          [] a = "U+2026" -> 8230]

\* The largest code point of the characters an atom stands for; an atom that
\* is not in CodePoint is a run of ASCII characters.
ord(a) == IF a \in DOMAIN CodePoint THEN CodePoint[a] ELSE 127

\* ---------------------------------------------------------- sanitize_text
\* The replacements dict, in insertion order.
replacements ==
    << <<"U+2022", "-">>,
       <<"U+2013", "-">>,
       <<"U+2014", "-">>,
       <<"U+2018", "'">>,
       <<"U+2019", "'">>,
       <<"U+201C", "\"">>,
       <<"U+201D", "\"">>,
       <<"U+2026", "...">> >>

\* str.replace(old, new) for a one-character old.
str_replace(s, old, new) == [i \in 1..Len(s) |-> IF s[i] = old THEN new ELSE s[i]]

\* The loop `for unicode_char, replacement in replacements.items()`, from
\* entry k on.
RECURSIVE apply_replacements(_, _)
apply_replacements(s, k) ==
    IF k > Len(replacements) THEN s
    ELSE apply_replacements(str_replace(s, replacements[k][1], replacements[k][2]), k + 1)

\* An encoding that keeps ASCII only.
encode_latin1_128(s) == [i \in 1..Len(s) |-> IF ord(s[i]) < 128 THEN s[i] ELSE "?"]

\* result.encode('latin-1', errors='replace').decode('latin-1')
encode_latin1(s) == [i \in 1..Len(s) |-> IF ord(s[i]) < 256 THEN s[i] ELSE "?"]

\* sanitize_text of src/deal_flow_app.py and src/analyst.py.
sanitize_text(text) ==
    IF ~Truthy(text) THEN << >>
    ELSE encode_latin1(apply_replacements(py_str(text), 1))

\* ------------------------------------------------------- number formatting
\* Numbers of the model are integers.  Market capitalisation and revenue are
\* held in millions of dollars and yields and margins in basis points, so
\* that the thresholds and the two printed decimals of the source are exact
\* in integer arithmetic; prices, ratios and returns are whole numbers.
Digits2(n) == IF n < 10 THEN <<"0", ToString(n)>> ELSE <<ToString(n)>>
Digits3(n) == IF n < 10 THEN <<"00", ToString(n)>>
              ELSE IF n < 100 THEN <<"0", ToString(n)>> ELSE <<ToString(n)>>
Zeros(decimals) == IF decimals = 1 THEN <<"0">> ELSE IF decimals = 2 THEN <<"00">> ELSE << >>

\* "{n:,}" for 0 <= n < 10^6.
Commas(n) == IF n < 1000 THEN <<ToString(n)>>
             ELSE <<ToString(n \div 1000), ",">> \o Digits3(n % 1000)

\* "{n:.1f}" / "{n:.2f}" of a whole number n.
Fixed(n, decimals) == <<ToString(n), ".">> \o Zeros(decimals)

\* "{v/unit:.2f}" for v a multiple of unit/100.
Ratio2(v, unit) == <<ToString(v \div unit), ".">> \o Digits2((v % unit) \div (unit \div 100))

\* 1e12, 1e9 and 1e6 dollars, in millions of dollars.
Trillion == 1000000
Billion == 1000
Million == 1

format_market_cap(value) ==
    IF value.t = "None" THEN <<"N/A">>
    ELSE IF value.n >= Trillion THEN <<"$">> \o Ratio2(value.n, Trillion) \o <<"T">>
    ELSE IF value.n >= Billion THEN <<"$">> \o Ratio2(value.n, Billion) \o <<"B">>
    ELSE IF value.n >= Million THEN <<"$">> \o <<ToString(value.n), ".00">> \o <<"M">>
    ELSE <<"$", "0">>

format_number(value, prefix, suffix, decimals) ==
    IF value.t = "None" THEN <<"N/A">>
    ELSE prefix \o Commas(value.n) \o <<".">> \o Zeros(decimals) \o suffix

\* ------------------------------------------------------ get_ticker_symbol
Whitespace == {" ", "\n", "\t"}

RECURSIVE lstrip(_)
lstrip(s) == IF s # << >> /\ Head(s) \in Whitespace THEN lstrip(Tail(s)) ELSE s

RECURSIVE rstrip(_)
rstrip(s) == IF s # << >> /\ s[Len(s)] \in Whitespace THEN rstrip(SubSeq(s, 1, Len(s) - 1)) ELSE s

strip(s) == rstrip(lstrip(s))

\* str.upper(), atom by atom: the lower-case words of the model and their
\* upper-case forms; every other atom has no lower-case letter.
UpperOf == [a \in {"private", "acme", "shop", "to"} |->
               CASE a = "private" -> "PRIVATE"
                 [] a = "acme"    -> "ACME"
                 [] a = "shop"    -> "SHOP"
                 [] a = "to"      -> "TO"]

upper(s) == [i \in 1..Len(s) |-> IF s[i] \in DOMAIN UpperOf THEN UpperOf[s[i]] ELSE s[i]]

\* The response trimmed and compared as it stands.
get_ticker_symbol_raw(content) ==
    LET result == strip(content) IN
    IF result = <<"PRIVATE">> THEN PyNone ELSE Str(result)

\* The value get_ticker_symbol returns for the generation collaborator's
\* response `content`.
get_ticker_symbol(content) ==
    LET result == upper(strip(content)) IN
    IF result = <<"PRIVATE">> THEN PyNone ELSE Str(result)

\* -------------------------------------------------------- fetch_stock_data
PyOr(a, b) == IF Truthy(a) THEN a ELSE b

exchange_names ==
    [c \in {"NMS", "NYQ", "NGM", "TOR", "TSX", "VAN", "LSE", "LON", "FRA", "PAR",
            "HKG", "JPX", "TYO", "ASX"} |->
        CASE c = "NMS" -> "NASDAQ"
          [] c = "NYQ" -> "NYSE"
          [] c = "NGM" -> "NASDAQ"
          [] c = "TOR" -> "TSX"
          [] c = "TSX" -> "TSX"
          [] c = "VAN" -> "TSX-V"
          [] c = "LSE" -> "LSE"
          [] c = "LON" -> "LSE"
          [] c = "FRA" -> "Frankfurt"
          [] c = "PAR" -> "Euronext Paris"
          [] c = "HKG" -> "HKEX"
          [] c = "JPX" -> "Tokyo"
          [] c = "TYO" -> "Tokyo"
          [] c = "ASX" -> "ASX"]

currency_symbols ==
    [c \in {"USD", "CAD", "GBP", "EUR", "JPY", "HKD", "AUD", "CHF"} |->
        CASE c = "USD" -> <<"$">>
          [] c = "CAD" -> <<"$">>
          [] c = "GBP" -> <<"U+00A3">>
          [] c = "EUR" -> <<"U+20AC">>
          [] c = "JPY" -> <<"U+00A5">>
          [] c = "HKD" -> <<"HK$">>
          [] c = "AUD" -> <<"A$">>
          [] c = "CHF" -> <<"CHF ">>]

\* exchange_names.get(exchange, exchange); a code is a one-atom str.
exchange_display(exchange) ==
    IF exchange.t = "str" /\ Len(exchange.s) = 1 /\ exchange.s[1] \in DOMAIN exchange_names
    THEN Str(<<exchange_names[exchange.s[1]]>>)
    ELSE exchange

\* An unlisted currency code as its own symbol.
currency_symbol_bare(currency) ==
    IF currency.t = "str" /\ Len(currency.s) = 1 /\ currency.s[1] \in DOMAIN currency_symbols
    THEN Str(currency_symbols[currency.s[1]])
    ELSE currency

\* currency_symbols.get(currency, f"{currency} ")
currency_symbol(currency) ==
    IF currency.t = "str" /\ Len(currency.s) = 1 /\ currency.s[1] \in DOMAIN currency_symbols
    THEN Str(currency_symbols[currency.s[1]])
    ELSE Str(py_str(currency) \o <<" ">>)

\* ((end_price - start_price) / start_price) * 100 over the close prices.
year_return_of(hist) ==
    IF Len(hist) >= 2
    THEN Num(((hist[Len(hist)] - hist[1]) * 100) \div hist[1])
    ELSE PyNone

\* datetime.fromtimestamp(market_time).strftime("%b %d, %I:%M %p")
last_trade_time_of(market_time) ==
    IF Truthy(market_time) THEN Str(<<"t=", ToString(market_time.n)>>) ELSE PyNone

dividend_yield_of(info) ==
    LET dy == Get(info, "dividendYield", PyNone) IN
    PyOr(Get(info, "trailingAnnualDividendYield", PyNone),
         IF Truthy(dy) /\ dy.n > 10000 THEN Num(dy.n \div 100) ELSE dy)

\* The dict built by the `return {...}` of fetch_stock_data.
stock_record(ticker, info, hist) ==
    LET exchange == Get(info, "exchange", Str(<< >>))
        currency == Get(info, "currency", Str(<<"USD">>))
    IN  [current_price |-> PyOr(Get(info, "currentPrice", PyNone),
                                Get(info, "regularMarketPrice", PyNone)),
         market_cap |-> Get(info, "marketCap", PyNone),
         year_return |-> year_return_of(hist),
         pe_ratio |-> Get(info, "trailingPE", PyNone),
         forward_pe |-> Get(info, "forwardPE", PyNone),
         fifty_two_week_high |-> Get(info, "fiftyTwoWeekHigh", PyNone),
         fifty_two_week_low |-> Get(info, "fiftyTwoWeekLow", PyNone),
         sector |-> Get(info, "sector", PyNone),
         industry |-> Get(info, "industry", PyNone),
         employees |-> Get(info, "fullTimeEmployees", PyNone),
         dividend_yield |-> dividend_yield_of(info),
         beta |-> Get(info, "beta", PyNone),
         revenue |-> Get(info, "totalRevenue", PyNone),
         profit_margin |-> Get(info, "profitMargins", PyNone),
         ticker |-> ticker,
         last_trade_time |-> last_trade_time_of(Get(info, "regularMarketTime", PyNone)),
         exchange |-> exchange_display(exchange),
         currency |-> currency,
         currency_symbol |-> currency_symbol(currency)]

\* A fetch that asks for the quote a second time when the first request fails.
stock_calls_retry(ticker, yf) ==
    IF yf.raises = "info"
    THEN <<[op |-> "quote", arg |-> py_str(ticker)], [op |-> "quote", arg |-> py_str(ticker)]>>
    ELSE <<[op |-> "quote", arg |-> py_str(ticker)],
           [op |-> "history", arg |-> py_str(ticker)]>>

\* The collaborator calls fetch_stock_data makes: stock.info, then
\* stock.history(period="1y") unless stock.info raised.
stock_calls(ticker, yf) ==
    IF yf.raises = "info" THEN <<[op |-> "quote", arg |-> py_str(ticker)]>>
    ELSE <<[op |-> "quote", arg |-> py_str(ticker)],
           [op |-> "history", arg |-> py_str(ticker)]>>

\* A partially filled record on failure, instead of None.
fetch_stock_data_partial(ticker, yf) ==
    IF yf.raises # "none"
    THEN [value |-> Dict([ticker |-> ticker]), warning |-> TRUE, raised |-> FALSE,
          calls |-> stock_calls(ticker, yf)]
    ELSE [value |-> Dict(stock_record(ticker, yf.info, yf.hist)), warning |-> FALSE,
          raised |-> FALSE, calls |-> stock_calls(ticker, yf)]

\* fetch_stock_data(ticker) when the financial-data collaborator behaves as
\* yf: yf.raises says which of its calls raises ("none", "info", "history"),
\* yf.info and yf.hist are what they return.  value is what is returned,
\* warning whether st.warning was shown, raised whether an exception leaves
\* the function.
fetch_stock_data(ticker, yf) ==
    IF yf.raises # "none"
    THEN [value |-> PyNone, warning |-> TRUE, raised |-> FALSE,
          calls |-> stock_calls(ticker, yf)]
    ELSE [value |-> Dict(stock_record(ticker, yf.info, yf.hist)), warning |-> FALSE,
          raised |-> FALSE, calls |-> stock_calls(ticker, yf)]

\* -------------------------------------------------------- get_company_info
Min(a, b) == IF a < b THEN a ELSE b

\* A slice that keeps one character more.
take_through(s, n) == SubSeq(s, 1, Min(Len(s), n + 1))

\* s[:n]
Take(s, n) == SubSeq(s, 1, Min(Len(s), n))

\* The per-snippet caps of the search summary, the cap of the scraped page,
\* and the caps of the page content inside the synthesis prompt.
SnippetCapBasic == 300
SnippetCapRich == 400
ScrapeCap == 5000
PromptCapBasic == 3000
PromptCapRich == 4000

NA == Str(<<"N/A">>)

\* One pass of `for i, result in enumerate(results[:n], 1)`.
result_lines(label, i, result, cap) ==
    <<label, ToString(i), ":\n">>
    \o <<"Title: ">> \o py_str(Get(result, "title", NA)) \o <<"\n">>
    \o <<"URL: ">> \o py_str(Get(result, "url", NA)) \o <<"\n">>
    \o <<"Content: ">> \o Take(py_str(Get(result, "content", NA)), cap) \o <<"...\n\n">>

RECURSIVE results_summary(_, _, _, _, _)
results_summary(label, results, i, n, cap) ==
    IF i > Min(Len(results), n) THEN << >>
    ELSE result_lines(label, i, results[i], cap)
         \o results_summary(label, results, i + 1, n, cap)

website_query(company_name) == company_name \o <<" official website home page">>
news_query(company_name) == company_name \o <<" recent news 2024 2025">>

\* get_company_info of src/analyst.py, when the search collaborator answers
\* the website query with `web` ([raises, results]).  calls are the
\* collaborator calls made, in order.
get_company_info_basic(company_name, web) ==
    LET q == [op |-> "search", arg |-> website_query(company_name)] IN
    IF web.raises
    THEN [raised |-> TRUE, url |-> PyNone, summary |-> << >>, calls |-> <<q>>]
    ELSE IF web.results = << >>
    THEN [raised |-> FALSE, url |-> PyNone, summary |-> <<"No search results found">>,
          calls |-> <<q>>]
    ELSE [raised |-> FALSE,
          url |-> Get(web.results[1], "url", Str(<< >>)),
          summary |-> results_summary("Result ", web.results, 1, 3, SnippetCapBasic),
          calls |-> <<q>>]

\* The string "None" in place of None when nothing is found.
get_company_info_none_string(company_name, web, news) ==
    LET q == [op |-> "search", arg |-> website_query(company_name)] IN
    IF web.raises
    THEN [raised |-> TRUE, url |-> PyNone, summary |-> << >>, calls |-> <<q>>]
    ELSE [raised |-> FALSE, url |-> Str(<<"None">>), summary |-> <<"No search results found">>,
          calls |-> <<q>>]

\* The URL of the first result that has one.
get_company_info_next_url(company_name, web, news) ==
    LET q == [op |-> "search", arg |-> website_query(company_name)]
        nq == [op |-> "search", arg |-> news_query(company_name)]
        with_url == {i \in 1..Len(web.results) : Truthy(Get(web.results[i], "url", Str(<< >>)))}
    IN
    IF web.raises
    THEN [raised |-> TRUE, url |-> PyNone, summary |-> << >>, calls |-> <<q>>]
    ELSE IF web.results = << >>
    THEN [raised |-> FALSE, url |-> PyNone, summary |-> <<"No search results found">>,
          calls |-> <<q>>]
    ELSE IF news.raises
    THEN [raised |-> TRUE, url |-> PyNone, summary |-> << >>, calls |-> <<q, nq>>]
    ELSE [raised |-> FALSE,
          url |-> IF with_url = { } THEN Str(<< >>)
                  ELSE web.results[CHOOSE i \in with_url : \A j \in with_url : i <= j]["url"],
          summary |-> <<"=== COMPANY WEBSITE SEARCH ===\n">>
                      \o results_summary("Result ", web.results, 1, 3, SnippetCapRich)
                      \o <<"\n=== RECENT NEWS & MARKET CONTEXT ===\n">>
                      \o results_summary("News ", news.results, 1, 5, SnippetCapRich),
          calls |-> <<q, nq>>]

\* The top result scraped between the two searches.
get_company_info_scraping(company_name, web, news) ==
    LET q == [op |-> "search", arg |-> website_query(company_name)]
        nq == [op |-> "search", arg |-> news_query(company_name)]
    IN
    IF web.raises
    THEN [raised |-> TRUE, url |-> PyNone, summary |-> << >>, calls |-> <<q>>]
    ELSE IF web.results = << >>
    THEN [raised |-> FALSE, url |-> PyNone, summary |-> <<"No search results found">>,
          calls |-> <<q>>]
    ELSE [raised |-> news.raises,
          url |-> IF news.raises THEN PyNone ELSE Get(web.results[1], "url", Str(<< >>)),
          summary |-> IF news.raises THEN << >>
                      ELSE <<"=== COMPANY WEBSITE SEARCH ===\n">>
                           \o results_summary("Result ", web.results, 1, 3, SnippetCapRich)
                           \o <<"\n=== RECENT NEWS & MARKET CONTEXT ===\n">>
                           \o results_summary("News ", news.results, 1, 5, SnippetCapRich),
          calls |-> <<q, [op |-> "scrape",
                          arg |-> py_str(Get(web.results[1], "url", Str(<< >>)))], nq>>]

\* get_company_info of src/deal_flow_app.py: `news` is the answer to the
\* second (news) query.
get_company_info(company_name, web, news) ==
    LET q == [op |-> "search", arg |-> website_query(company_name)]
        nq == [op |-> "search", arg |-> news_query(company_name)]
    IN
    IF web.raises
    THEN [raised |-> TRUE, url |-> PyNone, summary |-> << >>, calls |-> <<q>>]
    ELSE IF web.results = << >>
    THEN [raised |-> FALSE, url |-> PyNone, summary |-> <<"No search results found">>,
          calls |-> <<q>>]
    ELSE IF news.raises
    THEN [raised |-> TRUE, url |-> PyNone, summary |-> << >>, calls |-> <<q, nq>>]
    ELSE [raised |-> FALSE,
          url |-> Get(web.results[1], "url", Str(<< >>)),
          summary |-> <<"=== COMPANY WEBSITE SEARCH ===\n">>
                      \o results_summary("Result ", web.results, 1, 3, SnippetCapRich)
                      \o <<"\n=== RECENT NEWS & MARKET CONTEXT ===\n">>
                      \o results_summary("News ", news.results, 1, 5, SnippetCapRich),
          calls |-> <<q, nq>>]

\* --------------------------------------------------------- analyze_website
\* A scrape failure that is not caught.
analyze_website_raising(url, fc) ==
    IF fc.raises \/ fc.markdown.t # "str"
    THEN [raised |-> TRUE, value |-> << >>, reported |-> FALSE]
    ELSE [raised |-> FALSE, value |-> Take(fc.markdown.s, ScrapeCap), reported |-> FALSE]

\* analyze_website(url) when the scrape collaborator behaves as fc: it
\* raises, or returns a result whose markdown attribute is fc.markdown.
\* reported: the failure was shown (st.error / print).
analyze_website(url, fc) ==
    IF fc.raises \/ fc.markdown.t # "str"
    THEN [raised |-> FALSE, value |-> << >>, reported |-> TRUE]
    ELSE [raised |-> FALSE, value |-> Take(fc.markdown.s, ScrapeCap), reported |-> FALSE]

\* ----------------------------------------------------------- generate_swot
PrivateNote == <<"\nNote: This is a PRIVATE company - no public stock data available.\n">>

\* The private-company note whatever the snapshot.
stock_context_private(stock_data) == PrivateNote

\* The stock_context of generate_swot (src/deal_flow_app.py).
stock_context(stock_data) ==
    IF Truthy(stock_data)
    THEN LET sd == stock_data.d
             curr_sym == py_str(Get(sd, "currency_symbol", Str(<<"$">>)))
             low_52 == Get(sd, "fifty_two_week_low", PyNone)
             high_52 == Get(sd, "fifty_two_week_high", PyNone)
             range_str == IF Truthy(low_52) /\ Truthy(high_52)
                          THEN curr_sym \o Fixed(low_52.n, 2) \o <<" - ">>
                               \o curr_sym \o Fixed(high_52.n, 2)
                          ELSE <<"N/A">>
             price == Get(sd, "current_price", PyNone)
             price_str == IF Truthy(price) THEN curr_sym \o Fixed(price.n, 2) ELSE <<"N/A">>
             yr == Get(sd, "year_return", PyNone)
             pe == Get(sd, "pe_ratio", PyNone)
             emp == Get(sd, "employees", PyNone)
             beta == Get(sd, "beta", PyNone)
         IN  <<"\nFINANCIAL METRICS (Live Market Data):\n">>
             \o <<"- Stock Ticker: ">> \o py_str(Get(sd, "ticker", NA)) \o <<"\n">>
             \o <<"- Current Price: ">> \o price_str \o <<"\n">>
             \o <<"- Market Cap: ">> \o format_market_cap(Get(sd, "market_cap", PyNone)) \o <<"\n">>
             \o <<"- 1-Year Return: ">>
             \o (IF Truthy(yr) THEN format_number(yr, << >>, <<"%">>, 2) ELSE <<"N/A">>) \o <<"\n">>
             \o <<"- P/E Ratio: ">>
             \o (IF Truthy(pe) THEN format_number(pe, << >>, << >>, 1) ELSE <<"N/A">>) \o <<"\n">>
             \o <<"- 52-Week Range: ">> \o range_str \o <<"\n">>
             \o <<"- Sector: ">> \o py_str(Get(sd, "sector", NA)) \o <<"\n">>
             \o <<"- Industry: ">> \o py_str(Get(sd, "industry", NA)) \o <<"\n">>
             \o <<"- Employees: ">> \o (IF Truthy(emp) THEN Commas(emp.n) ELSE <<"N/A">>) \o <<"\n">>
             \o <<"- Beta: ">>
             \o (IF Truthy(beta) THEN format_number(beta, << >>, << >>, 2) ELSE <<"N/A">>) \o <<"\n">>
    ELSE PrivateNote

\* The prompt of generate_swot, src/analyst.py.
swot_prompt_basic(company_name, search_summary, website_content) ==
    <<"Act as a VC Investor. Write a detailed SWOT analysis for ">> \o company_name
    \o <<".\n\nReturn valid JSON with keys: ...\n\nSearch Context:\n">> \o search_summary
    \o <<"\n\nWebsite Content:\n">> \o Take(website_content, PromptCapBasic)
    \o <<"\n\nReturn ONLY valid JSON with no additional text.">>

\* The prompt of generate_swot, src/deal_flow_app.py.
swot_prompt(company_name, search_summary, website_content, stock_data) ==
    <<"You are a senior partner ... preparing an investment memo for ">> \o company_name
    \o <<" ... provide a comprehensive investment analysis.\n">>
    \o stock_context(stock_data)
    \o <<"SEARCH CONTEXT & MARKET DATA:\n">> \o search_summary
    \o <<"\n\nWEBSITE CONTENT:\n">> \o Take(website_content, PromptCapRich)
    \o <<"\n\nReturn valid JSON with the following structure: ...">>

\* A default AnalysisResult in place of the parse error.
json_loads_lenient(content) ==
    IF content.wellformed THEN [raised |-> FALSE, value |-> content.value]
    ELSE [raised |-> FALSE, value |-> << >>]

\* json.loads(content): the generation collaborator's text either denotes a
\* JSON object (content.value, a dict) or is malformed.
json_loads(content) ==
    IF content.wellformed THEN [raised |-> FALSE, value |-> content.value]
    ELSE [raised |-> TRUE, value |-> << >>]

\* ---------------------------------------------------------------- save_pdf
\* The document is the sequence of its text-writing calls: pdf.cell and
\* pdf.multi_cell with their text.  Fonts, colours and line feeds are fixed
\* by the position in the code and are not recorded.
Cell(txt) == [op |-> "cell", txt |-> txt]
MultiCell(txt) == [op |-> "multi_cell", txt |-> txt]

\* str.title(), atom by atom, over the words of the model.
TitleOf == [a \in {"acme", "co", "ACME"} |->
               CASE a = "acme" -> "Acme"
                 [] a = "co"   -> "Co"
                 [] a = "ACME" -> "Acme"]

title(s) == [i \in 1..Len(s) |-> IF s[i] \in DOMAIN TitleOf THEN TitleOf[s[i]] ELSE s[i]]

\* ticker_display.split('.')[0] if '.' in ticker_display else ticker_display
RECURSIVE before_dot(_)
before_dot(s) == IF s = << >> \/ Head(s) = "." THEN << >> ELSE <<Head(s)>> \o before_dot(Tail(s))

\* The ticker_info of the report title and of the metrics line.
ticker_info_of(sd) ==
    LET exchange == Get(sd, "exchange", Str(<< >>))
        ticker_clean == before_dot(py_str(Get(sd, "ticker", Str(<< >>))))
    IN  IF Truthy(exchange) THEN py_str(exchange) \o <<": ">> \o ticker_clean ELSE ticker_clean

\* Bullet lines written last item first.
RECURSIVE bullet_cells_reversed(_)
bullet_cells_reversed(xs) ==
    IF xs = << >> THEN << >>
    ELSE bullet_cells_reversed(Tail(xs))
         \o <<MultiCell(sanitize_text(Str(<<"- ">> \o py_str(Head(xs)))))>>

\* The bullet lines of one list: `for x in xs: ... multi_cell(sanitize_text(f"- {x}"))`.
RECURSIVE bullet_cells(_)
bullet_cells(xs) ==
    IF xs = << >> THEN << >>
    ELSE LET sanitized == sanitize_text(Str(<<"- ">> \o py_str(Head(xs)))) IN
         (IF strip(sanitized) # << >> THEN <<MultiCell(sanitized)>> ELSE << >>)
         \o bullet_cells(Tail(xs))

EmptyList == List(<< >>)
EmptyStr == Str(<< >>)

\* A section that is always written: its heading, then the bullets.
list_section(heading, xs) == <<Cell(<<heading>>)>> \o bullet_cells(IterItems(xs))

\* A list section whose heading is written whatever the list.
list_section_unconditional(heading, xs) ==
    <<Cell(<<heading>>)>> \o (IF Truthy(xs) THEN bullet_cells(IterItems(xs)) ELSE << >>)

\* A list section that is dropped when the list is empty or absent
\* (`if strategic_recs:`).
list_section_skipping(heading, xs) ==
    IF Truthy(xs) THEN <<Cell(<<heading>>)>> \o bullet_cells(IterItems(xs)) ELSE << >>

\* A text section written only if the text is truthy.
text_section(heading, text) ==
    IF Truthy(text) THEN <<Cell(<<heading>>), MultiCell(sanitize_text(text))>> ELSE << >>

SwotKeys == <<"strengths", "weaknesses", "opportunities", "threats">>
SwotHeading == [strengths |-> "Strengths", weaknesses |-> "Weaknesses",
                opportunities |-> "Opportunities", threats |-> "Threats"]

\* A file named after the display name of the title.
memo_filename_titled(company_name) == title(company_name) \o <<"_Memo.pdf">>

\* filename = f"{company_name}_Memo.pdf"
memo_filename(company_name) == company_name \o <<"_Memo.pdf">>

\* save_pdf of src/analyst.py.  raised: a TypeError left the function before
\* pdf.output; cells: the document written to `filename`.
save_pdf_basic(company_name, swot_data) ==
    LET field(k) == Get(swot_data, k, EmptyList)
        cells ==
            <<Cell(sanitize_text(Str(<<"Investment Memo: ">> \o company_name)))>>
            \o <<Cell(<<"Summary">>),
                 MultiCell(sanitize_text(Get(swot_data, "summary",
                                             Str(<<"No summary available.">>))))>>
            \o list_section("Strengths", field("strengths"))
            \o list_section("Weaknesses", field("weaknesses"))
            \o list_section("Opportunities", field("opportunities"))
            \o list_section("Threats", field("threats"))
    IN  IF \E i \in 1..4 : ~Iterable(field(SwotKeys[i]))
        THEN [raised |-> TRUE, cells |-> << >>, filename |-> << >>]
        ELSE [raised |-> FALSE, cells |-> cells,
              filename |-> memo_filename(company_name)]

\* The title cell of the richer document.
title_cell(company_name, stock_data) ==
    LET display_name == title(company_name) IN
    IF Truthy(stock_data) /\ Truthy(Get(stock_data.d, "ticker", PyNone))
    THEN Cell(sanitize_text(Str(<<"Investment Memo: ">> \o display_name \o <<" (">>
                                \o ticker_info_of(stock_data.d) \o <<")">>)))
    ELSE Cell(sanitize_text(Str(<<"Investment Memo: ">> \o display_name)))

\* The generation-date cell: today is datetime.now().strftime('%B %d, %Y').
date_cell(today) == Cell(<<"Generated: ", today>>)

\* The "Investment Verdict | Risk Rating" cell.
verdict_cell(swot_data) ==
    Cell(sanitize_text(Str(<<"Investment Verdict: ">>
                           \o py_str(Get(swot_data, "investment_verdict", NA))
                           \o <<"  |  Risk Rating: ">>
                           \o py_str(Get(swot_data, "risk_rating", NA)))))

PrivateCell == Cell(<<"Private Company - No public stock data available">>)

\* The Financial Metrics section, or the private-company indicator.
metrics_cells(stock_data) ==
    IF Truthy(stock_data) /\ Truthy(Get(stock_data.d, "current_price", PyNone))
    THEN LET sd == stock_data.d
             curr_sym == py_str(Get(sd, "currency_symbol", Str(<<"$">>)))
             year_return == Get(sd, "year_return", PyNone)
             pe_ratio == Get(sd, "pe_ratio", PyNone)
             low_52 == Get(sd, "fifty_two_week_low", PyNone)
             high_52 == Get(sd, "fifty_two_week_high", PyNone)
             div_yield == Get(sd, "dividend_yield", PyNone)
             metrics_line1 ==
                 <<"Ticker: ">> \o ticker_info_of(sd) \o <<"  |  Price: ">> \o curr_sym
                 \o Fixed(sd["current_price"].n, 2) \o <<"  |  Market Cap: ">>
                 \o format_market_cap(Get(sd, "market_cap", PyNone))
             metrics_line2 ==
                 (IF Truthy(year_return)
                  THEN <<"1-Year Return: ">> \o Fixed(year_return.n, 1) \o <<"%">>
                  ELSE <<"1-Year Return: N/A">>)
                 \o (IF Truthy(pe_ratio)
                     THEN <<"  |  P/E Ratio: ">> \o Fixed(pe_ratio.n, 1)
                     ELSE <<"  |  P/E Ratio: N/A">>)
                 \o <<"  |  Sector: ">> \o py_str(Get(sd, "sector", NA))
             metrics_line3 ==
                 <<"52-Week Range: ">> \o curr_sym \o Fixed(low_52.n, 2) \o <<" - ">>
                 \o curr_sym \o Fixed(high_52.n, 2)
                 \o <<"  |  Industry: ">> \o py_str(Get(sd, "industry", NA))
                 \o (IF Truthy(div_yield)
                     THEN <<"  |  Dividend Yield: ">> \o Ratio2(div_yield.n, 100) \o <<"%">>
                     ELSE << >>)
         IN  <<Cell(<<"Financial Metrics">>),
               MultiCell(sanitize_text(Str(metrics_line1))),
               MultiCell(sanitize_text(Str(metrics_line2)))>>
             \o (IF Truthy(low_52) /\ Truthy(high_52)
                 THEN <<MultiCell(sanitize_text(Str(metrics_line3)))>> ELSE << >>)
    ELSE <<PrivateCell>>

NoSummary == Str(<<"No summary available.">>)

\* swot_data.get('executive_summary', swot_data.get('summary', 'No summary available.'))
executive_summary_of(swot_data) ==
    Get(swot_data, "executive_summary", Get(swot_data, "summary", NoSummary))

\* A document renderer that stamps the generation date into the summary too.
save_pdf_stamped(company_name, swot_data, stock_data, today) ==
    [raised |-> FALSE,
     cells |-> <<title_cell(company_name, stock_data), date_cell(today), verdict_cell(swot_data)>>
               \o metrics_cells(stock_data)
               \o <<Cell(<<"Executive Summary">>),
                    MultiCell(sanitize_text(executive_summary_of(swot_data)) \o <<" (", today, ")">>)>>,
     filename |-> memo_filename(company_name)]

\* save_pdf of src/deal_flow_app.py.
save_pdf(company_name, swot_data, stock_data, today) ==
    LET field(k) == Get(swot_data, k, EmptyList)
        strategic_recs == field("strategic_recommendations")
        cells ==
            <<title_cell(company_name, stock_data), date_cell(today), verdict_cell(swot_data)>>
            \o metrics_cells(stock_data)
            \o <<Cell(<<"Executive Summary">>),
                 MultiCell(sanitize_text(executive_summary_of(swot_data)))>>
            \o text_section("Market Analysis", Get(swot_data, "market_analysis", EmptyStr))
            \o list_section("Strengths", field("strengths"))
            \o list_section("Weaknesses", field("weaknesses"))
            \o list_section("Opportunities", field("opportunities"))
            \o list_section("Threats", field("threats"))
            \o list_section_skipping("Strategic Recommendations", strategic_recs)
            \o text_section("Investment Considerations",
                            Get(swot_data, "investment_considerations", EmptyStr))
    IN  IF \/ \E i \in 1..4 : ~Iterable(field(SwotKeys[i]))
           \/ Truthy(strategic_recs) /\ ~Iterable(strategic_recs)
        THEN [raised |-> TRUE, cells |-> << >>, filename |-> << >>]
        ELSE [raised |-> FALSE, cells |-> cells,
              filename |-> memo_filename(company_name)]

\* ------------------------------------------------- the interactive report
\* The interactive report is the sequence of its display calls: the
\* Streamlit operation and the text it shows.
Block(op, txt) == [op |-> op, txt |-> txt]

\* The styled header with the company name and, for public companies, the
\* exchange and ticker.
header_block(company_name, stock_data) ==
    LET display_name == title(company_name) IN
    IF Truthy(stock_data) /\ Truthy(Get(stock_data.d, "ticker", PyNone))
    THEN Block("markdown", <<"<h1>">> \o display_name \o <<" <span>(">>
                           \o ticker_info_of(stock_data.d) \o <<")</span></h1>">>)
    ELSE Block("markdown", <<"<h1>">> \o display_name \o <<"</h1>">>)

PrivateInfo ==
    Block("info", <<"**Private Company** - This company is not publicly traded. No stock data available.">>)

\* curr_sym.replace('$', '&#36;')
html_dollar(s) ==
    [i \in 1..Len(s) |-> CASE s[i] = "$"   -> "&#36;"
                           [] s[i] = "HK$" -> "HK&#36;"
                           [] s[i] = "A$"  -> "A&#36;"
                           [] OTHER        -> s[i]]

\* The Financial Metrics cards and the expandable details, or the
\* private-company notice.
metrics_blocks(stock_data) ==
    IF Truthy(stock_data) /\ Truthy(Get(stock_data.d, "current_price", PyNone))
    THEN LET sd == stock_data.d
             price == Get(sd, "current_price", PyNone)
             last_trade == Get(sd, "last_trade_time", PyNone)
             currency_sym == py_str(Get(sd, "currency_symbol", Str(<<"$">>)))
             yr == Get(sd, "year_return", PyNone)
             pe == Get(sd, "pe_ratio", PyNone)
             low == Get(sd, "fifty_two_week_low", PyNone)
             high == Get(sd, "fifty_two_week_high", PyNone)
             curr_sym_html == html_dollar(currency_sym)
             div_yield == Get(sd, "dividend_yield", PyNone)
             beta == Get(sd, "beta", PyNone)
             fwd_pe == Get(sd, "forward_pe", PyNone)
             emp == Get(sd, "employees", PyNone)
             rev == Get(sd, "revenue", PyNone)
             margin == Get(sd, "profit_margin", PyNone)
         IN  <<Block("markdown", <<"### Financial Metrics">>),
               Block("metric", <<"Stock Price", "=">>
                     \o (IF Truthy(price) THEN currency_sym \o Fixed(price.n, 2) ELSE <<"N/A">>))>>
             \o (IF Truthy(last_trade)
                 THEN <<Block("caption", <<"Last updated: ">> \o py_str(last_trade))>> ELSE << >>)
             \o <<Block("metric", <<"Market Cap", "=">>
                        \o format_market_cap(Get(sd, "market_cap", PyNone))),
                  Block("metric", <<"1-Year Return", "=">>
                        \o (IF Truthy(yr) THEN Fixed(yr.n, 1) \o <<"%">> ELSE <<"N/A">>)),
                  Block("metric", <<"P/E Ratio", "=">>
                        \o (IF Truthy(pe) THEN Fixed(pe.n, 1) ELSE <<"N/A">>)),
                  Block("expander", <<"More Market Details">>),
                  Block("markdown",
                        IF Truthy(low) /\ Truthy(high)
                        THEN <<"<b>52-Week Range:</b> ">> \o curr_sym_html \o Fixed(low.n, 2)
                             \o <<" - ">> \o curr_sym_html \o Fixed(high.n, 2)
                        ELSE <<"<b>52-Week Range:</b> N/A">>),
                  Block("markdown", <<"<b>Sector:</b> ">> \o py_str(Get(sd, "sector", NA))),
                  Block("markdown", <<"<b>Industry:</b> ">> \o py_str(Get(sd, "industry", NA))),
                  Block("markdown",
                        IF Truthy(div_yield)
                        THEN <<"<b>Dividend Yield:</b> ">> \o Ratio2(div_yield.n, 100) \o <<"%">>
                        ELSE <<"<b>Dividend Yield:</b> N/A">>),
                  Block("markdown",
                        IF Truthy(beta) THEN <<"<b>Beta:</b> ">> \o Fixed(beta.n, 2)
                        ELSE <<"<b>Beta:</b> N/A">>),
                  Block("markdown",
                        IF Truthy(fwd_pe) THEN <<"<b>Forward P/E:</b> ">> \o Fixed(fwd_pe.n, 1)
                        ELSE <<"<b>Forward P/E:</b> N/A">>),
                  Block("markdown",
                        IF Truthy(emp) THEN <<"<b>Employees:</b> ">> \o Commas(emp.n)
                        ELSE <<"<b>Employees:</b> N/A">>),
                  Block("markdown",
                        IF Truthy(rev) THEN <<"<b>Revenue:</b> ">> \o format_market_cap(rev)
                        ELSE <<"<b>Revenue:</b> N/A">>),
                  Block("markdown",
                        IF Truthy(margin)
                        THEN <<"<b>Profit Margin:</b> ">> \o <<ToString(margin.n \div 100), ".">>
                             \o <<ToString((margin.n % 100) \div 10)>> \o <<"%">>
                        ELSE <<"<b>Profit Margin:</b> N/A">>)>>
    ELSE <<PrivateInfo>>

RECURSIVE bullet_blocks(_, _)
bullet_blocks(bullet, xs) ==
    IF xs = << >> THEN << >>
    ELSE <<Block("markdown", <<bullet>> \o py_str(Head(xs)))>> \o bullet_blocks(bullet, Tail(xs))

\* One cell of the SWOT grid with the "none listed" line left out.
swot_blocks_no_placeholder(heading, placeholder, xs) ==
    <<Block("markdown", <<heading>>)>>
    \o (IF Truthy(xs) THEN bullet_blocks("U+2022 ", IterItems(xs)) ELSE << >>)

\* One cell of the SWOT grid: the coloured heading, then the bullets or the
\* "none listed" line.
swot_blocks(heading, placeholder, xs) ==
    <<Block("markdown", <<heading>>)>>
    \o (IF Truthy(xs) THEN bullet_blocks("U+2022 ", IterItems(xs))
        ELSE <<Block("markdown", <<placeholder>>)>>)

\* The Strategic Recommendations expander.
recs_blocks(xs) ==
    IF Truthy(xs)
    THEN <<Block("expander", <<"Strategic Recommendations">>)>> \o bullet_blocks("- ", IterItems(xs))
    ELSE << >>

\* The Stock Price History section; chart is the behaviour of the
\* financial-data collaborator's history call: it raises, or returns the
\* close prices chart.hist.
chart_blocks(stock_data, chart) ==
    IF Truthy(stock_data) /\ Truthy(Get(stock_data.d, "ticker", PyNone))
    THEN <<Block("markdown", <<"### Stock Price History (1 Year)">>)>>
         \o (IF chart.raises THEN <<Block("warning", <<"Could not load stock chart: ">>)>>
             ELSE IF chart.hist = << >>
             THEN <<Block("info", <<"Stock price history not available.">>)>>
             ELSE LET closes == {chart.hist[i] : i \in 1..Len(chart.hist)}
                      period_high == CHOOSE x \in closes : \A y \in closes : y <= x
                      period_low == CHOOSE x \in closes : \A y \in closes : x <= y
                      curr_sym_html ==
                          html_dollar(py_str(Get(stock_data.d, "currency_symbol", Str(<<"$">>))))
                  IN  <<Block("line_chart", [i \in 1..Len(chart.hist) |-> ToString(chart.hist[i])]),
                        Block("markdown", <<"52-week range: ">> \o curr_sym_html
                              \o Fixed(period_low, 2) \o <<" - ">> \o curr_sym_html
                              \o Fixed(period_high, 2))>>)
         \o <<Block("markdown", <<"---">>)>>
    ELSE << >>

\* Whether the stock-chart section calls the financial-data collaborator.
chart_called(stock_data) == Truthy(stock_data) /\ Truthy(Get(stock_data.d, "ticker", PyNone))

\* The interactive rendering block of src/deal_flow_app.py, from the header
\* to the stock chart.  raised: a TypeError left the block (a truthy list
\* field that cannot be iterated).
render_interactive(company_name, swot_data, stock_data, chart) ==
    LET field(k) == Get(swot_data, k, EmptyList)
        executive_summary == executive_summary_of(swot_data)
        market_analysis == Get(swot_data, "market_analysis", EmptyStr)
        investment_considerations == Get(swot_data, "investment_considerations", EmptyStr)
        strategic_recs == field("strategic_recommendations")
        blocks ==
            <<header_block(company_name, stock_data)>>
            \o metrics_blocks(stock_data)
            \o <<Block("markdown", <<"---">>),
                 Block("markdown", <<"<h4>Executive Summary</h4><p>">>
                                   \o py_str(executive_summary) \o <<"</p>">>),
                 Block("markdown", << >>)>>
            \o (IF Truthy(market_analysis)
                THEN <<Block("markdown", <<"### Market Analysis">>),
                       Block("markdown", py_str(market_analysis))>>
                ELSE << >>)
            \o <<Block("markdown", <<"---">>), Block("markdown", <<"### SWOT Analysis">>)>>
            \o swot_blocks("Strengths", "*No strengths listed*", field("strengths"))
            \o swot_blocks("Weaknesses", "*No weaknesses listed*", field("weaknesses"))
            \o <<Block("markdown", << >>)>>
            \o swot_blocks("Opportunities", "*No opportunities listed*", field("opportunities"))
            \o swot_blocks("Threats", "*No threats listed*", field("threats"))
            \o <<Block("markdown", <<"---">>)>>
            \o recs_blocks(strategic_recs)
            \o (IF Truthy(investment_considerations)
                THEN <<Block("markdown", <<"### Investment Considerations">>),
                       Block("markdown", py_str(investment_considerations)),
                       Block("markdown", <<"---">>)>>
                ELSE << >>)
            \o chart_blocks(stock_data, chart)
    IN  IF \/ \E i \in 1..4 : Truthy(field(SwotKeys[i])) /\ ~Iterable(field(SwotKeys[i]))
           \/ Truthy(strategic_recs) /\ ~Iterable(strategic_recs)
        THEN [raised |-> TRUE, blocks |-> << >>]
        ELSE [raised |-> FALSE, blocks |-> blocks]

\* ------------------------------------------------------------------ inputs
\* Company names typed into the sidebar (the empty input included).
CompanyNames == {<< >>, <<"acme", " ", "co">>}

\* Responses of the generation collaborator to the ticker question.
TickerContents == {<<"PRIVATE">>, <<" ", "private", "\n">>, <<"ACME">>, <<"shop", ".", "to">>, <<"\n">>}

\* Quote/profile maps of the financial-data collaborator: a complete one, and
\* one with most metrics missing.
FullInfo ==
    [currentPrice |-> Num(120), marketCap |-> Num(150200), trailingPE |-> Num(30),
     forwardPE |-> Num(25), fiftyTwoWeekHigh |-> Num(140), fiftyTwoWeekLow |-> Num(80),
     sector |-> Str(<<"Technology">>), industry |-> Str(<<"Software", "U+2014", "Application">>),
     fullTimeEmployees |-> Num(8100), dividendYield |-> Num(150), beta |-> Num(2),
     totalRevenue |-> Num(7000), profitMargins |-> Num(1250), regularMarketTime |-> Num(1700000000),
     exchange |-> Str(<<"TOR">>), currency |-> Str(<<"EUR">>)]

SparseInfo == [exchange |-> Str(<<"XYZ">>)]

YfOutcomes ==
    {[raises |-> "info", info |-> << >>, hist |-> << >>],
     [raises |-> "history", info |-> FullInfo, hist |-> << >>],
     [raises |-> "none", info |-> FullInfo, hist |-> <<100, 150>>],
     [raises |-> "none", info |-> SparseInfo, hist |-> <<100>>]}

\* Answers of the search collaborator.
AcmeHit == [title |-> Str(<<"Acme">>), url |-> Str(<<"https://acme.example">>),
            content |-> Str(<<"U+201C", "widgets", "U+201D">>)]
NoUrlHit == [title |-> Str(<<"Acme">>), content |-> Str(<<"...">>)]
EmptyUrlHit == [title |-> Str(<<"Acme">>), url |-> Str(<< >>), content |-> Str(<<"...">>)]

WebOutcomes ==
    {[raises |-> TRUE, results |-> << >>],
     [raises |-> FALSE, results |-> << >>],
     [raises |-> FALSE, results |-> <<AcmeHit>>],
     [raises |-> FALSE, results |-> <<NoUrlHit, AcmeHit>>],
     [raises |-> FALSE, results |-> <<EmptyUrlHit>>]}

NewsOutcomes ==
    {[raises |-> TRUE, results |-> << >>],
     [raises |-> FALSE, results |-> <<AcmeHit>>]}

\* Behaviours of the scrape collaborator.
ScrapeOutcomes ==
    {[raises |-> TRUE, markdown |-> PyNone],
     [raises |-> FALSE, markdown |-> PyNone],
     [raises |-> FALSE, markdown |-> Str(<<"#", " ", "A", "c", "m", "e">>)]}

\* Behaviours of the history call behind the stock chart.
ChartOutcomes ==
    {[raises |-> TRUE, hist |-> << >>],
     [raises |-> FALSE, hist |-> << >>],
     [raises |-> FALSE, hist |-> <<100, 150>>]}

\* The dates datetime.now().strftime('%B %d, %Y') shows, in the order of time.
DateNames == <<"November 05, 2026", "November 06, 2026">>

\* AnalysisResult values.  ListKeys hold lists, TextKeys hold text.
ListKeys == {"strengths", "weaknesses", "opportunities", "threats", "strategic_recommendations"}
TextKeys == {"executive_summary", "summary", "risk_rating", "investment_verdict",
             "market_analysis", "investment_considerations"}
Keys == ListKeys \cup TextKeys

ItemsUpTo(n) == [i \in 1..n |-> Str(<<"point ", ToString(i), "U+2019">>)]

\* Every field filled: lists of MaxItems items, text with typographic marks.
FullResult ==
    [k \in Keys |->
        IF k \in ListKeys THEN List(ItemsUpTo(MaxItems))
        ELSE CASE k = "risk_rating" -> Str(<<"HIGH">>)
               [] k = "investment_verdict" -> Str(<<"BUY">>)
               [] OTHER -> Str(<<k, "U+2026", "U+4E2D">>)]

\* Every field present and empty.
BlankResult == [k \in Keys |-> IF k \in ListKeys THEN EmptyList ELSE EmptyStr]

\* Every field present and null.
NullResult == [k \in Keys |-> PyNone]

\* The end-to-end scenario of the specification, completed with the other keys.
AcmeResult ==
    [k \in Keys |->
        CASE k = "strengths" -> List(<<Str(<<"Strong brand">>)>>)
          [] k \in ListKeys \ {"strengths"} -> EmptyList
          [] k = "summary" -> Str(<<"Acme is a widget company.">>)
          [] k = "risk_rating" -> Str(<<"LOW">>)
          [] k = "investment_verdict" -> Str(<<"WATCH">>)
          [] OTHER -> Str(<<k>>)]

Fills == {FullResult, BlankResult, NullResult, AcmeResult}

Restrict(f, K) == [k \in K |-> f[k]]

AcmeScenario ==
    Restrict(AcmeResult, {"strengths", "weaknesses", "opportunities", "threats", "summary"})

\* Every fill with up to MaxAbsent of its keys absent, the end-to-end
\* scenario, and the empty object.
AnalysisResults ==
    {Restrict(f, Keys \ A) : f \in Fills, A \in {S \in SUBSET Keys : Cardinality(S) <= MaxAbsent}}
    \cup {AcmeScenario, Restrict(FullResult, { })}

\* The AnalysisResults the pipeline runs are fed.
PipelineResults ==
    {AcmeScenario, FullResult, Restrict(FullResult, { }),
     Restrict(NullResult, {"weaknesses", "executive_summary"})}

\* Responses of the generation collaborator to the synthesis prompt.
GenOutcomes ==
    {[raises |-> TRUE, content |-> [wellformed |-> FALSE, value |-> << >>]],
     [raises |-> FALSE, content |-> [wellformed |-> FALSE, value |-> << >>]]}
    \cup {[raises |-> FALSE, content |-> [wellformed |-> TRUE, value |-> r]] :
              r \in PipelineResults}

\* ------------------------------------------------------------------- state
VARIABLES
    variant,          \* which program runs: "basic" (analyst.py) or "rich" (deal_flow_app.py)
    pc,               \* the next step of the run
    outcome,          \* how the run ended; "running" until then
    company_name,     \* the company name of the run
    ticker,           \* get_ticker_symbol's result
    stock_data,       \* fetch_stock_data's result
    url,              \* get_company_info's URL
    search_summary,   \* get_company_info's summary
    website_content,  \* analyze_website's result
    swot_data,        \* generate_swot's result
    prompt,           \* the synthesis prompt sent
    calls,            \* the collaborator calls made, in order
    faults,           \* the collaborator failures met so far
    ui,               \* what was shown to the user, in order
    progress_bar,     \* the progress widget: "none", a percentage, or "empty"
    status_text,      \* the status widget: "none", a status, or "empty"
    files,            \* the files written: file name -> document
    docs,             \* the documents save_pdf produced, in order
    views,            \* the interactive reports produced, in order
    clock,            \* the date datetime.now() last showed: an index into DateNames
    text_in,          \* the argument of a sanitize_text call
    text_out,         \* its result
    reply             \* what the collaborators returned: the ticker answer, the quote/profile
                      \* map, the close prices of the year, the website search
                      \* results, the scraped markdown

vars == <<variant, pc, outcome, company_name, ticker, stock_data, url, search_summary,
          website_content, swot_data, prompt, calls, faults, ui, progress_bar,
          status_text, files, docs, views, clock, text_in, text_out, reply>>

NoFiles == [n \in { } |-> << >>]

NoReply == [classify |-> PyNone, quote |-> PyNone, history |-> PyNone, search |-> PyNone,
            scrape |-> PyNone]

\* pdf.output(filename): the file is created or overwritten.
Written(fs, name, cells) ==
    [n \in DOMAIN fs \cup {name} |-> IF n = name THEN cells ELSE fs[n]]

\* The company name hard-coded in analyst.py.
Shopify == <<"Shopify">>

Blank ==
    /\ pc = "start"
    /\ outcome = "running"
    /\ ticker = PyNone
    /\ stock_data = PyNone
    /\ url = PyNone
    /\ search_summary = << >>
    /\ website_content = << >>
    /\ swot_data = << >>
    /\ prompt = << >>
    /\ calls = << >>
    /\ faults = { }
    /\ ui = << >>
    /\ progress_bar = "none"
    /\ status_text = "none"
    /\ files = NoFiles
    /\ docs = << >>
    /\ views = << >>
    /\ clock = 1
    /\ text_in = << >>
    /\ text_out = << >>
    /\ reply = NoReply

Init ==
    /\ variant \in {"basic", "rich"}
    /\ company_name = IF variant = "basic" THEN Shopify ELSE << >>
    /\ Blank

\* The run-level `except Exception as e` of deal_flow_app.py.
Handler(shown, what) ==
    /\ ui' = shown \o <<Block("error", <<"Error: ", what>>)>>
    /\ progress_bar' = "empty"
    /\ status_text' = "empty"
    /\ pc' = "done"
    /\ outcome' = "error"

\* An exception nothing catches ends analyst.py with a traceback.
Crash(shown, what) ==
    /\ ui' = shown \o <<Block("traceback", <<what>>)>>
    /\ pc' = "done"
    /\ outcome' = "crash"

Untouched == UNCHANGED <<text_in, text_out, reply>>
Unsanitized == UNCHANGED <<text_in, text_out>>
SameDay == UNCHANGED clock
NoFault == UNCHANGED faults

\* ------------------------------------------- the run of src/deal_flow_app.py
\* The Generate Memo button is pressed with `name` in the sidebar.
Click(name) ==
    /\ variant = "rich" /\ pc = "start"
    /\ company_name' = name
    /\ IF name = << >>
       THEN /\ ui' = ui \o <<Block("error", <<"Please enter a company name">>)>>
            /\ pc' = "done"
            /\ outcome' = "no_input"
            /\ UNCHANGED <<progress_bar, status_text>>
       ELSE /\ progress_bar' = "0"
            /\ status_text' = "empty"
            /\ pc' = "ticker"
            /\ UNCHANGED <<ui, outcome>>
    /\ UNCHANGED <<variant, ticker, stock_data, url, search_summary, website_content,
                   swot_data, prompt, calls, files, docs, views>>
    /\ Untouched /\ SameDay /\ NoFault

\* A fetch that is not guarded by the ticker.
has_ticker_always(t) == TRUE

\* `if ticker:` of the run block.
has_ticker(t) == Truthy(t)

\* Step 1: get_ticker_symbol; gen is the generation collaborator's behaviour.
GetTicker(gen) ==
    /\ variant = "rich" /\ pc = "ticker"
    /\ calls' = Append(calls, [op |-> "classify", arg |-> company_name])
    /\ faults' = IF gen.raises THEN faults \cup {"classify"} ELSE faults
    /\ IF gen.raises
       THEN /\ Handler(ui, "generation collaborator")
            /\ UNCHANGED ticker
       ELSE /\ ticker' = get_ticker_symbol(gen.content)
            /\ status_text' = "Checking if company is publicly traded..."
            /\ progress_bar' = "10"
            /\ pc' = IF has_ticker(get_ticker_symbol(gen.content)) THEN "fetch" ELSE "search"
            /\ UNCHANGED <<ui, outcome>>
    /\ UNCHANGED <<variant, company_name, stock_data, url, search_summary, website_content,
                   swot_data, prompt, files, docs, views>>
    /\ reply' = IF gen.raises THEN reply ELSE [reply EXCEPT !.classify = Str(gen.content)]
    /\ Unsanitized /\ SameDay

\* Step 2: fetch_stock_data(ticker), only for a truthy ticker.
FetchStock(yf) ==
    /\ variant = "rich" /\ pc = "fetch"
    /\ faults' = IF yf.raises # "none" THEN faults \cup {"market data"} ELSE faults
    /\ LET r == fetch_stock_data(ticker, yf) IN
       /\ calls' = calls \o r.calls
       /\ IF r.raised
          THEN /\ Handler(ui, "financial-data collaborator")
               /\ UNCHANGED stock_data
          ELSE /\ stock_data' = r.value
               /\ ui' = IF r.warning
                        THEN Append(ui, Block("warning", <<"Could not fetch stock data: ">>))
                        ELSE ui
               /\ status_text' = "Fetching stock data..."
               /\ progress_bar' = "20"
               /\ pc' = "search"
               /\ UNCHANGED outcome
    /\ UNCHANGED <<variant, company_name, ticker, url, search_summary, website_content,
                   swot_data, prompt, files, docs, views>>
    /\ reply' = CASE yf.raises = "info" -> reply
                [] yf.raises = "history" -> [reply EXCEPT !.quote = Dict(yf.info)]
                [] OTHER -> [reply EXCEPT !.quote = Dict(yf.info), !.history = List(yf.hist)]
    /\ Unsanitized /\ SameDay

\* Step 3: get_company_info, then the `if not url` test.
Search(web, news) ==
    /\ variant = "rich" /\ pc = "search"
    /\ faults' = IF web.raises \/ (web.results # << >> /\ news.raises)
                 THEN faults \cup {"search"} ELSE faults
    /\ LET r == get_company_info(company_name, web, news) IN
       /\ calls' = calls \o r.calls
       /\ IF r.raised
          THEN /\ Handler(ui, "search collaborator")
               /\ UNCHANGED <<url, search_summary>>
          ELSE /\ url' = r.url
               /\ search_summary' = r.summary
               /\ status_text' = "Searching for company information..."
               /\ progress_bar' = "35"
               /\ IF ~Truthy(r.url)
                  THEN /\ ui' = Append(ui, Block("error", <<"Could not find website for ">>
                                                          \o company_name))
                       /\ pc' = "done"
                       /\ outcome' = "no_website"
                  ELSE /\ pc' = "scrape"
                       /\ UNCHANGED <<ui, outcome>>
    /\ UNCHANGED <<variant, company_name, ticker, stock_data, website_content,
                   swot_data, prompt, files, docs, views>>
    /\ reply' = IF web.raises THEN reply ELSE [reply EXCEPT !.search = List(web.results)]
    /\ Unsanitized /\ SameDay

\* Step 4: analyze_website(url).
Scrape(fc) ==
    /\ variant = "rich" /\ pc = "scrape"
    /\ faults' = IF fc.raises \/ fc.markdown.t # "str" THEN faults \cup {"scrape"} ELSE faults
    /\ LET r == analyze_website(url, fc) IN
       /\ calls' = Append(calls, [op |-> "scrape", arg |-> py_str(url)])
       /\ IF r.raised
          THEN /\ Handler(ui, "scrape collaborator")
               /\ UNCHANGED website_content
          ELSE /\ website_content' = r.value
               /\ ui' = IF r.reported
                        THEN Append(ui, Block("error", <<"Error scraping website: ">>))
                        ELSE ui
               /\ status_text' = "Scraping company website..."
               /\ progress_bar' = "55"
               /\ pc' = "generate"
               /\ UNCHANGED outcome
    /\ UNCHANGED <<variant, company_name, ticker, stock_data, url, search_summary,
                   swot_data, prompt, files, docs, views>>
    /\ reply' = IF fc.raises THEN reply ELSE [reply EXCEPT !.scrape = fc.markdown]
    /\ Unsanitized /\ SameDay

\* Step 5: generate_swot, then the progress widgets are cleared.
Generate(gen) ==
    /\ variant = "rich" /\ pc = "generate"
    /\ faults' = IF gen.raises THEN faults \cup {"generate"}
                 ELSE IF ~gen.content.wellformed THEN faults \cup {"malformed json"}
                 ELSE faults
    /\ LET p == swot_prompt(company_name, search_summary, website_content, stock_data)
           parsed == json_loads(gen.content)
       IN
       /\ prompt' = p
       /\ calls' = Append(calls, [op |-> "generate", arg |-> p])
       /\ IF gen.raises
          THEN /\ Handler(ui, "generation collaborator")
               /\ UNCHANGED swot_data
          ELSE IF parsed.raised
          THEN /\ Handler(ui, "JSONDecodeError")
               /\ UNCHANGED swot_data
          ELSE /\ swot_data' = parsed.value
               /\ progress_bar' = "empty"
               /\ status_text' = "empty"
               /\ pc' = "render"
               /\ UNCHANGED <<ui, outcome>>
    /\ UNCHANGED <<variant, company_name, ticker, stock_data, url, search_summary,
                   website_content, files, docs, views>>
    /\ Untouched /\ SameDay

\* The interactive report, with the history call of the stock chart.
RenderInteractive(chart) ==
    /\ variant = "rich" /\ pc = "render"
    /\ faults' = IF chart_called(stock_data) /\ chart.raises THEN faults \cup {"chart"} ELSE faults
    /\ LET r == render_interactive(company_name, swot_data, stock_data, chart) IN
       /\ calls' = IF chart_called(stock_data) /\ ~r.raised
                   THEN Append(calls, [op |-> "history", arg |-> py_str(stock_data.d["ticker"])])
                   ELSE calls
       /\ IF r.raised
          THEN /\ Handler(ui, "TypeError")
               /\ UNCHANGED views
          ELSE /\ ui' = ui \o r.blocks
               /\ views' = Append(views, r.blocks)
               /\ pc' = "pdf"
               /\ UNCHANGED <<outcome, progress_bar, status_text>>
    /\ UNCHANGED <<variant, company_name, ticker, stock_data, url, search_summary,
                   website_content, swot_data, prompt, files, docs>>
    /\ Untouched /\ SameDay

\* save_pdf, the file read back, and the download button; `now` is the date
\* the clock shows when the document is written.
SavePdf(now) ==
    /\ variant = "rich" /\ pc = "pdf"
    /\ now >= clock
    /\ clock' = now
    /\ LET r == save_pdf(company_name, swot_data, stock_data, DateNames[now]) IN
       IF r.raised
       THEN /\ Handler(ui, "TypeError")
            /\ UNCHANGED <<files, docs>>
       ELSE /\ files' = Written(files, r.filename, r.cells)
            /\ docs' = Append(docs, r.cells)
            /\ ui' = Append(ui, Block("download_button", r.filename))
            /\ pc' = "done"
            /\ outcome' = "ok"
            /\ UNCHANGED <<progress_bar, status_text>>
    /\ UNCHANGED <<variant, company_name, ticker, stock_data, url, search_summary,
                   website_content, swot_data, prompt, calls, views>>
    /\ Untouched /\ NoFault

\* ------------------------------------------------ the run of src/analyst.py
\* Step 1: get_company_info('Shopify'), then the `if not url` test.
AnalystSearch(web) ==
    /\ variant = "basic" /\ pc = "start"
    /\ faults' = IF web.raises THEN faults \cup {"search"} ELSE faults
    /\ LET r == get_company_info_basic(company_name, web)
           shown == Append(ui, Block("print", <<"Searching for ">> \o company_name \o <<"...">>))
       IN
       /\ calls' = calls \o r.calls
       /\ IF r.raised
          THEN /\ Crash(shown, "search collaborator")
               /\ UNCHANGED <<url, search_summary>>
          ELSE /\ url' = r.url
               /\ search_summary' = r.summary
               /\ IF ~Truthy(r.url)
                  THEN /\ ui' = Append(shown, Block("print", <<"Error: Could not find website for ">>
                                                             \o company_name))
                       /\ pc' = "done"
                       /\ outcome' = "no_website"
                  ELSE /\ ui' = Append(shown, Block("print", <<"Found website: ">> \o py_str(r.url)))
                       /\ pc' = "scrape"
                       /\ UNCHANGED outcome
    /\ UNCHANGED <<variant, company_name, ticker, stock_data, website_content, swot_data,
                   prompt, progress_bar, status_text, files, docs, views>>
    /\ reply' = IF web.raises THEN reply ELSE [reply EXCEPT !.search = List(web.results)]
    /\ Unsanitized /\ SameDay

\* Step 2: analyze_website(url).
AnalystScrape(fc) ==
    /\ variant = "basic" /\ pc = "scrape"
    /\ faults' = IF fc.raises \/ fc.markdown.t # "str" THEN faults \cup {"scrape"} ELSE faults
    /\ LET r == analyze_website(url, fc)
           shown == Append(ui, Block("print", <<"Scraping website...">>))
       IN
       /\ calls' = Append(calls, [op |-> "scrape", arg |-> py_str(url)])
       /\ IF r.raised
          THEN /\ Crash(shown, "scrape collaborator")
               /\ UNCHANGED website_content
          ELSE /\ website_content' = r.value
               /\ ui' = (IF r.reported
                         THEN Append(shown, Block("print", <<"Error scraping website: ">>))
                         ELSE shown)
                        \o <<Block("print", <<"Scraped ", ToString(Len(r.value)), " characters">>)>>
               /\ pc' = "generate"
               /\ UNCHANGED outcome
    /\ UNCHANGED <<variant, company_name, ticker, stock_data, url, search_summary, swot_data,
                   prompt, progress_bar, status_text, files, docs, views>>
    /\ reply' = IF fc.raises THEN reply ELSE [reply EXCEPT !.scrape = fc.markdown]
    /\ Unsanitized /\ SameDay

\* Step 3: generate_swot.
AnalystGenerate(gen) ==
    /\ variant = "basic" /\ pc = "generate"
    /\ faults' = IF gen.raises THEN faults \cup {"generate"}
                 ELSE IF ~gen.content.wellformed THEN faults \cup {"malformed json"}
                 ELSE faults
    /\ LET p == swot_prompt_basic(company_name, search_summary, website_content)
           parsed == json_loads(gen.content)
           shown == Append(ui, Block("print", <<"Analyzing data...">>))
       IN
       /\ prompt' = p
       /\ calls' = Append(calls, [op |-> "generate", arg |-> p])
       /\ IF gen.raises
          THEN /\ Crash(shown, "generation collaborator")
               /\ UNCHANGED swot_data
          ELSE IF parsed.raised
          THEN /\ Crash(shown, "JSONDecodeError")
               /\ UNCHANGED swot_data
          ELSE /\ swot_data' = parsed.value
               /\ ui' = Append(shown, Block("print", <<"SWOT analysis generated">>))
               /\ pc' = "pdf"
               /\ UNCHANGED outcome
    /\ UNCHANGED <<variant, company_name, ticker, stock_data, url, search_summary,
                   website_content, progress_bar, status_text, files, docs, views>>
    /\ Untouched /\ SameDay

\* Step 4: save_pdf.
AnalystSavePdf ==
    /\ variant = "basic" /\ pc = "pdf"
    /\ LET r == save_pdf_basic(company_name, swot_data)
           shown == Append(ui, Block("print", <<"Generating PDF...">>))
       IN
       IF r.raised
       THEN /\ Crash(shown, "TypeError")
            /\ UNCHANGED <<files, docs>>
       ELSE /\ files' = Written(files, r.filename, r.cells)
            /\ docs' = Append(docs, r.cells)
            /\ ui' = Append(shown, Block("print", <<"Done! Check your folder. File saved as: ">>
                                                  \o r.filename))
            /\ pc' = "done"
            /\ outcome' = "ok"
    /\ UNCHANGED <<variant, company_name, ticker, stock_data, url, search_summary,
                   website_content, swot_data, prompt, calls, progress_bar, status_text, views>>
    /\ Untouched /\ SameDay /\ NoFault

TickerOutcomes ==
    {[raises |-> TRUE, content |-> << >>]}
    \cup {[raises |-> FALSE, content |-> c] : c \in TickerContents}

Next ==
    \/ \E name \in CompanyNames : Click(name)
    \/ \E gen \in TickerOutcomes : GetTicker(gen)
    \/ \E yf \in YfOutcomes : FetchStock(yf)
    \/ \E web \in WebOutcomes, news \in NewsOutcomes : Search(web, news)
    \/ \E fc \in ScrapeOutcomes : Scrape(fc)
    \/ \E gen \in GenOutcomes : Generate(gen)
    \/ \E chart \in ChartOutcomes : RenderInteractive(chart)
    \/ \E now \in 1..Len(DateNames) : SavePdf(now)
    \/ \E web \in WebOutcomes : AnalystSearch(web)
    \/ \E fc \in ScrapeOutcomes : AnalystScrape(fc)
    \/ \E gen \in GenOutcomes : AnalystGenerate(gen)
    \/ AnalystSavePdf

Spec == Init /\ [][Next]_vars

\* ---------------------------------------------- the renderers on their own
\* The two renderers as functions of (company name, AnalysisResult,
\* MarketSnapshot): the inputs are drawn at the start and rendered twice.
PublicSnapshot == Dict(stock_record(Str(<<"SHOP", ".", "TO">>), FullInfo, <<100, 150>>))

InitRender ==
    /\ variant = "rich"
    /\ pc = "render"
    /\ outcome = "running"
    /\ company_name = <<"acme", " ", "co">>
    /\ swot_data \in AnalysisResults
    /\ stock_data \in {PyNone, PublicSnapshot}
    /\ ticker = PyNone
    /\ url = PyNone
    /\ search_summary = << >>
    /\ website_content = << >>
    /\ prompt = << >>
    /\ calls = << >>
    /\ faults = { }
    /\ ui = << >>
    /\ progress_bar = "none"
    /\ status_text = "none"
    /\ files = NoFiles
    /\ docs = << >>
    /\ views = << >>
    /\ clock = 1
    /\ text_in = << >>
    /\ text_out = << >>
    /\ reply = NoReply

\* One rendering of the inputs: the interactive report, then save_pdf, as in
\* the run.  A renderer that raises produces nothing.
Rendering(from, to, chart, now) ==
    /\ pc = from
    /\ now >= clock
    /\ clock' = now
    /\ LET v == render_interactive(company_name, swot_data, stock_data, chart)
           d == save_pdf(company_name, swot_data, stock_data, DateNames[now])
       IN
       /\ views' = IF v.raised THEN views ELSE Append(views, v.blocks)
       /\ docs' = IF d.raised THEN docs ELSE Append(docs, d.cells)
       /\ files' = IF d.raised THEN files ELSE Written(files, d.filename, d.cells)
       /\ ui' = IF d.raised THEN Append(ui, Block("error", <<"Error: ", "TypeError">>)) ELSE ui
    /\ pc' = to
    /\ UNCHANGED <<variant, outcome, company_name, ticker, stock_data, url, search_summary,
                   website_content, swot_data, prompt, calls, progress_bar, status_text>>
    /\ Untouched /\ NoFault

Render(chart, now) == Rendering("render", "rendered", chart, now)

RenderAgain(chart, now) == Rendering("rendered", "rendered twice", chart, now)

\* The basic document of the same AnalysisResult.
RenderBasic ==
    /\ pc = "render"
    /\ LET d == save_pdf_basic(company_name, swot_data) IN
       /\ docs' = IF d.raised THEN docs ELSE Append(docs, d.cells)
       /\ files' = IF d.raised THEN files ELSE Written(files, d.filename, d.cells)
    /\ pc' = "done"
    /\ UNCHANGED <<variant, outcome, company_name, ticker, stock_data, url, search_summary,
                   website_content, swot_data, prompt, calls, ui, progress_bar, status_text,
                   views>>
    /\ Untouched /\ SameDay /\ NoFault

\* Behaviours of the stock chart's history call in the renderings.
RenderCharts == {c \in ChartOutcomes : c.raises \/ c.hist # << >>}

NextRender ==
    \/ \E chart \in RenderCharts, now \in 1..Len(DateNames) : Render(chart, now)
    \/ \E chart \in RenderCharts, now \in 1..Len(DateNames) : RenderAgain(chart, now)
    \/ RenderBasic

SpecRender == InitRender /\ [][NextRender]_vars

\* --------------------------------------------------- sanitize_text on its own
\* The characters of the enumerated strings: ASCII, Latin-1, the first code
\* point past Latin-1, a CJK character, and the eight of the table.
SanAlphabet == {"a", " ", "U+00E9", "U+00FF", "U+0100", "U+4E2D",
                "U+2022", "U+2013", "U+2014", "U+2018", "U+2019",
                "U+201C", "U+201D", "U+2026"}

Strings == UNION {[1..n -> SanAlphabet] : n \in 0..MaxLen}

\* An AnalysisResult all of whose strings are s.
ResultOf(s) == [k \in Keys |-> IF k \in ListKeys THEN List(<<Str(s)>>) ELSE Str(s)]

\* A MarketSnapshot whose collaborator-supplied strings are s.
SnapshotOf(s) ==
    Dict(stock_record(Str(<<"ACME">>),
                      [currentPrice |-> Num(120), fiftyTwoWeekHigh |-> Num(140),
                       fiftyTwoWeekLow |-> Num(80), sector |-> Str(s), industry |-> Str(s),
                       exchange |-> Str(s), currency |-> Str(s)],
                      << >>))

InitSanitize ==
    /\ text_in \in Strings
    /\ text_out = << >>
    /\ reply = NoReply
    /\ variant = "rich"
    /\ pc = "sanitize"
    /\ outcome = "running"
    /\ company_name = text_in
    /\ swot_data = ResultOf(text_in)
    /\ stock_data = SnapshotOf(text_in)
    /\ ticker = PyNone
    /\ url = PyNone
    /\ search_summary = << >>
    /\ website_content = << >>
    /\ prompt = << >>
    /\ calls = << >>
    /\ faults = { }
    /\ ui = << >>
    /\ progress_bar = "none"
    /\ status_text = "none"
    /\ files = NoFiles
    /\ docs = << >>
    /\ views = << >>
    /\ clock = 1

\* sanitize_text(text_in).
SanitizeText ==
    /\ pc = "sanitize"
    /\ text_out' = sanitize_text(Str(text_in))
    /\ pc' = "write"
    /\ UNCHANGED <<variant, outcome, company_name, ticker, stock_data, url, search_summary,
                   website_content, swot_data, prompt, calls, ui, progress_bar, status_text,
                   files, docs, views, clock, text_in, reply>>
    /\ NoFault

\* save_pdf of src/deal_flow_app.py on inputs made of text_in.
WriteDocument(now) ==
    /\ pc = "write"
    /\ now >= clock
    /\ clock' = now
    /\ LET d == save_pdf(company_name, swot_data, stock_data, DateNames[now]) IN
       /\ docs' = Append(docs, d.cells)
       /\ files' = Written(files, d.filename, d.cells)
    /\ pc' = "write basic"
    /\ UNCHANGED <<variant, outcome, company_name, ticker, stock_data, url, search_summary,
                   website_content, swot_data, prompt, calls, ui, progress_bar, status_text,
                   views>>
    /\ Untouched /\ NoFault

\* save_pdf of src/analyst.py on inputs made of text_in.
WriteBasicDocument ==
    /\ pc = "write basic"
    /\ LET d == save_pdf_basic(company_name, swot_data) IN
       /\ docs' = Append(docs, d.cells)
       /\ files' = Written(files, d.filename, d.cells)
    /\ pc' = "done"
    /\ UNCHANGED <<variant, outcome, company_name, ticker, stock_data, url, search_summary,
                   website_content, swot_data, prompt, calls, ui, progress_bar, status_text,
                   views>>
    /\ Untouched /\ SameDay /\ NoFault

NextSanitize ==
    \/ SanitizeText
    \/ \E now \in 1..Len(DateNames) : WriteDocument(now)
    \/ WriteBasicDocument

SpecSanitize == InitSanitize /\ [][NextSanitize]_vars

\* ------------------------------------------- the MarketSnapshot's consumers
\* The prompt builder and the two renderers as functions of the
\* MarketSnapshot: the snapshots fetch_stock_data returns for quote/profile
\* maps with up to MaxAbsent entries missing and for a price history with
\* and without a year of prices, and the absent snapshot.
InfoKeys == DOMAIN FullInfo

MarketInfos ==
    {Restrict(FullInfo, InfoKeys \ A) :
         A \in {S \in SUBSET InfoKeys : Cardinality(S) <= MaxAbsent}}

ShopTicker == Str(<<"SHOP", ".", "TO">>)

MarketSnapshots ==
    {fetch_stock_data(ShopTicker, [raises |-> "none", info |-> info, hist |-> hist]).value :
         info \in MarketInfos, hist \in {<<100, 150>>, <<100>>}}

InitMarket ==
    /\ variant = "rich"
    /\ pc = "prompt"
    /\ outcome = "running"
    /\ company_name = <<"acme", " ", "co">>
    /\ swot_data = AcmeScenario
    /\ stock_data \in MarketSnapshots \cup {PyNone}
    /\ ticker = IF stock_data = PyNone THEN PyNone ELSE ShopTicker
    /\ url = Str(<<"https://acme.example">>)
    /\ search_summary = <<"Result ", "1", ":\n">>
    /\ website_content = <<"#", " ", "A", "c", "m", "e">>
    /\ prompt = << >>
    /\ calls = << >>
    /\ faults = { }
    /\ ui = << >>
    /\ progress_bar = "none"
    /\ status_text = "none"
    /\ files = NoFiles
    /\ docs = << >>
    /\ views = << >>
    /\ clock = 1
    /\ text_in = << >>
    /\ text_out = << >>
    /\ reply = NoReply

\* The prompt of generate_swot for the snapshot.
BuildPrompt ==
    /\ pc = "prompt"
    /\ prompt' = swot_prompt(company_name, search_summary, website_content, stock_data)
    /\ pc' = "render"
    /\ UNCHANGED <<variant, outcome, company_name, ticker, stock_data, url, search_summary,
                   website_content, swot_data, calls, ui, progress_bar, status_text,
                   files, docs, views>>
    /\ Untouched /\ SameDay /\ NoFault

NextMarket ==
    \/ BuildPrompt
    \/ \E chart \in RenderCharts, now \in 1..Len(DateNames) : Render(chart, now)

SpecMarket == InitMarket /\ [][NextMarket]_vars

\* ------------------------------------------------- the truncations alone
\* Steps 4 and 5 of the run (2 and 3 of analyst.py) on pages and search
\* summaries of the lengths around the caps, one character to an atom.
PageLengths == {0, 1, 2999, 3000, 3001, 3999, 4000, 4001, 4999, 5000, 5001, 6000}

PageOf(n) == [i \in 1..n |-> ToString(i % 10)]

LongScrapes == {[raises |-> FALSE, markdown |-> Str(PageOf(n))] : n \in PageLengths}

LongSummary == [i \in 1..5200 |-> IF i % 2 = 0 THEN "s" ELSE "t"]

InitTruncate ==
    /\ variant \in {"basic", "rich"}
    /\ pc = "scrape"
    /\ outcome = "running"
    /\ company_name = Shopify
    /\ swot_data = << >>
    /\ stock_data = PyNone
    /\ ticker = PyNone
    /\ url = Str(<<"https://acme.example">>)
    /\ search_summary \in {<<"Result ", "1", ":\n">>, LongSummary}
    /\ website_content = << >>
    /\ prompt = << >>
    /\ calls = << >>
    /\ faults = { }
    /\ ui = << >>
    /\ progress_bar = "35"
    /\ status_text = "Searching for company information..."
    /\ files = NoFiles
    /\ docs = << >>
    /\ views = << >>
    /\ clock = 1
    /\ text_in = << >>
    /\ text_out = << >>
    /\ reply = NoReply

NextTruncate ==
    \/ \E fc \in LongScrapes : Scrape(fc)
    \/ \E gen \in GenOutcomes : Generate(gen)
    \/ \E fc \in LongScrapes : AnalystScrape(fc)
    \/ \E gen \in GenOutcomes : AnalystGenerate(gen)

SpecTruncate == InitTruncate /\ [][NextTruncate]_vars

\* ------------------------------------------------- the code lookups alone
\* Step 2 of the run on quote/profile maps with every listed exchange and
\* currency code, codes that are not listed (a listed code in lower case
\* among them), and without the entries.  "" stands for a missing entry.
ExchangeCodes == DOMAIN exchange_names \cup {"XYZ", "nms", ""}
CurrencyCodes == DOMAIN currency_symbols \cup {"SEK", "usd", ""}

CodeInfo(e, c) ==
    [k \in (InfoKeys \ {"exchange", "currency"})
           \cup (IF e = "" THEN { } ELSE {"exchange"})
           \cup (IF c = "" THEN { } ELSE {"currency"}) |->
        CASE k = "exchange" -> Str(<<e>>)
          [] k = "currency" -> Str(<<c>>)
          [] OTHER -> FullInfo[k]]

CodeOutcomes ==
    {[raises |-> "none", info |-> CodeInfo(e, c), hist |-> <<100, 150>>] :
         e \in ExchangeCodes, c \in CurrencyCodes}

InitLookup ==
    /\ variant = "rich"
    /\ pc = "fetch"
    /\ outcome = "running"
    /\ company_name = <<"acme", " ", "co">>
    /\ swot_data = << >>
    /\ stock_data = PyNone
    /\ ticker = ShopTicker
    /\ url = PyNone
    /\ search_summary = << >>
    /\ website_content = << >>
    /\ prompt = << >>
    /\ calls = <<[op |-> "classify", arg |-> company_name]>>
    /\ faults = { }
    /\ ui = << >>
    /\ progress_bar = "10"
    /\ status_text = "Checking if company is publicly traded..."
    /\ files = NoFiles
    /\ docs = << >>
    /\ views = << >>
    /\ clock = 1
    /\ text_in = << >>
    /\ text_out = << >>
    /\ reply = [NoReply EXCEPT !.classify = ShopTicker]

NextLookup == \E yf \in CodeOutcomes : FetchStock(yf)

SpecLookup == InitLookup /\ [][NextLookup]_vars

\* ------------------------------------------------ the one-year return alone
\* The run from step 2 on, for close-price series of up to three prices
\* whose return is a whole number of percent, on one company whose website
\* is found, scraped and analysed.
Prices == {50, 100, 150, 200}

PriceSeries ==
    {h \in UNION {[1..n -> Prices] : n \in 0..3} : h # << >> => h[1] \in {50, 100}}

ReturnOutcomes == {[raises |-> "none", info |-> FullInfo, hist |-> h] : h \in PriceSeries}

AcmeWeb == [raises |-> FALSE, results |-> <<AcmeHit>>]

AcmePage == [raises |-> FALSE, markdown |-> Str(<<"#", " ", "A", "c", "m", "e">>)]

AcmeAnswer == [raises |-> FALSE, content |-> [wellformed |-> TRUE, value |-> AcmeScenario]]

NextReturn ==
    \/ \E yf \in ReturnOutcomes : FetchStock(yf)
    \/ Search(AcmeWeb, AcmeWeb)
    \/ Scrape(AcmePage)
    \/ Generate(AcmeAnswer)
    \/ \E chart \in ChartOutcomes : RenderInteractive(chart)
    \/ \E now \in 1..Len(DateNames) : SavePdf(now)

SpecReturn == InitLookup /\ [][NextReturn]_vars

\* ------------------------------------------------------------------ claims
Ops == {calls[i].op : i \in 1..Len(calls)}

Shown(op) == \E i \in 1..Len(ui) : ui[i].op = op

\* The website search of the run returned zero results.
ZeroResults == search_summary = <<"No search results found">>

CouldNotFind ==
    \E i \in 1..Len(ui) :
        /\ ui[i].op \in {"error", "print"}
        /\ ui[i].txt \in {<<"Could not find website for ">> \o company_name,
                          <<"Error: Could not find website for ">> \o company_name}

C2_ParseFailureIsTerminal ==
    "malformed json" \in faults =>
        /\ pc = "done" /\ outcome \in {"error", "crash"}
        /\ swot_data = << >>
        /\ views = << >> /\ docs = << >> /\ files = NoFiles
        /\ ui # << >>
        /\ ui[Len(ui)] \in {Block("error", <<"Error: ", "JSONDecodeError">>),
                            Block("traceback", <<"JSONDecodeError">>)}
        /\ ~Shown("download_button")

C2_Witness ==
    /\ "malformed json" \in faults /\ variant = "rich" /\ outcome = "error"
    /\ "generate" \in Ops

\* The synthesis prompt of the run's variant for page content c.
PromptFor(c) ==
    IF variant = "basic" THEN swot_prompt_basic(company_name, search_summary, c)
    ELSE swot_prompt(company_name, search_summary, c, stock_data)

\* C3: after a failure of the scrape collaborator the page content is the
\* empty string, the run goes on to the synthesis stage, the synthesis prompt
\* is built from that empty string, and the run is never aborted by the
\* scrape failure.
C3_ScrapeFailureDegrades ==
    "scrape" \in faults =>
        /\ website_content = << >>
        /\ pc \in {"generate", "render", "pdf", "done"}
        /\ pc = "generate" => outcome = "running"
        /\ pc # "generate" => "generate" \in Ops /\ prompt = PromptFor(<< >>)

C3_Witness ==
    /\ "scrape" \in faults /\ "generate" \in Ops /\ prompt = PromptFor(<< >>)
    /\ outcome = "ok"

\* C4: after a failure of the financial-data collaborator with a ticker
\* present, the MarketSnapshot is absent (None), a warning was shown, and the
\* run goes on to the search and is never aborted by the failure.
C4_MarketFailureDegrades ==
    "market data" \in faults =>
        /\ Truthy(ticker)
        /\ stock_data = PyNone
        /\ Shown("warning")
        /\ pc \in {"search", "scrape", "generate", "render", "pdf", "done"}
        /\ pc = "search" => outcome = "running"
        /\ pc # "search" => "search" \in Ops

C4_Witness ==
    /\ "market data" \in faults /\ outcome = "ok" /\ docs # << >> /\ views # << >>

\* C5: the synthesis prompt of a run in which a ticker was resolved and the
\* market-data fetch failed differs from the prompt the same inputs give
\* when no ticker was resolved (stock_data = None by the main block).
C5_FetchFailureDistinguishable ==
    (Truthy(ticker) /\ "market data" \in faults /\ "generate" \in Ops) =>
        prompt # swot_prompt(company_name, search_summary, website_content, PyNone)

C5_Witness ==
    Truthy(ticker) /\ "market data" \in faults /\ "generate" \in Ops /\ outcome = "ok"

\* ------------------------------------------------- claims on the renderers
\* The SWOT headings and "none listed" lines of the interactive report.
Placeholder == [strengths |-> "*No strengths listed*", weaknesses |-> "*No weaknesses listed*",
                opportunities |-> "*No opportunities listed*", threats |-> "*No threats listed*"]

SwotSet == {SwotKeys[i] : i \in 1..Len(SwotKeys)}

\* Both renderers have produced their output for the inputs.
Rendered == pc = "rendered" /\ views # << >> /\ docs # << >>

View == views[1]
Doc == docs[1]

Has(blocks, b) == \E i \in 1..Len(blocks) : blocks[i] = b

\* The text t appears in one of the blocks.
Contains(txt, t) ==
    \E j \in 0..(Len(txt) - Len(t)) : SubSeq(txt, j + 1, j + Len(t)) = t

ShowsText(blocks, t) == \E i \in 1..Len(blocks) : Contains(blocks[i].txt, t)

IsEmptyList(k) == k \in DOMAIN swot_data /\ swot_data[k] = EmptyList

\* C6: for every AnalysisResult the content of a field (risk_rating and
\* investment_verdict included) and the placeholder of an empty SWOT list
\* are present in the document if and only if they are present in the
\* interactive report.
C6_RenderersAgreeOnPresence ==
    Rendered =>
        /\ \A k \in {"risk_rating", "investment_verdict", "market_analysis",
                     "investment_considerations"} \cap DOMAIN swot_data :
               Truthy(swot_data[k]) =>
                   (ShowsText(Doc, sanitize_text(swot_data[k]))
                        <=> ShowsText(View, py_str(swot_data[k])))
        /\ ShowsText(Doc, sanitize_text(executive_summary_of(swot_data)))
               <=> ShowsText(View, py_str(executive_summary_of(swot_data)))
        /\ \A k \in SwotSet :
               ShowsText(Doc, <<Placeholder[k]>>) <=> ShowsText(View, <<Placeholder[k]>>)

C6_Witness ==
    /\ Rendered
    /\ "risk_rating" \in DOMAIN swot_data /\ swot_data["risk_rating"] = Str(<<"HIGH">>)
    /\ ShowsText(Doc, <<"HIGH">>) /\ ~ShowsText(View, <<"HIGH">>)

BareHeading(doc, h) ==
    \E i \in 1..Len(doc) :
        /\ doc[i] = Cell(<<h>>)
        /\ i < Len(doc) => doc[i + 1].op = "cell"

\* The cell of heading h in an interactive report is followed by line b.
HeadingThen(view, h, b) ==
    \E i \in 1..(Len(view) - 1) :
        view[i] = Block("markdown", <<h>>) /\ view[i + 1] = Block("markdown", <<b>>)

Absent(k) == k \notin DOMAIN swot_data

\* C8, as stated: for an absent optional key both renderers omit the section
\* and neither raises, and the interactive report shows no "none listed"
\* placeholder for an absent list.
C8_AbsentKeysOmitted ==
    pc = "rendered" =>
        \A k \in (ListKeys \cup {"market_analysis", "investment_considerations"}) :
            Absent(k) =>
                /\ views # << >> /\ docs # << >>
                /\ k \in SwotSet =>
                       /\ ~Has(View, Block("markdown", <<Placeholder[k]>>))
                       /\ ~Has(View, Block("markdown", <<SwotHeading[k]>>))
                       /\ ~Has(Doc, Cell(<<SwotHeading[k]>>))

\* The section titles of the optional text fields and of the recommendations.
SectionTitle == [market_analysis |-> "Market Analysis",
                 investment_considerations |-> "Investment Considerations",
                 strategic_recommendations |-> "Strategic Recommendations"]

ViewTitle == [market_analysis |-> "### Market Analysis",
              investment_considerations |-> "### Investment Considerations",
              strategic_recommendations |-> "Strategic Recommendations"]

\* C8, amended: an absent key is rendered as its default.  An absent
\* market_analysis, investment_considerations or strategic_recommendations
\* has no section in either renderer; an absent SWOT list is rendered as an
\* empty one (heading and "none listed" placeholder in the interactive
\* report, bare heading in the document); and no renderer raises unless a
\* key that is present holds a value that cannot be iterated.
C8_AbsentKeysTakeDefaults ==
    pc = "rendered" =>
        /\ \A k \in DOMAIN SectionTitle :
               Absent(k) =>
                   /\ views # << >> => ~ShowsText(View, <<ViewTitle[k]>>)
                   /\ docs # << >> => ~Has(Doc, Cell(<<SectionTitle[k]>>))
        /\ \A k \in SwotSet :
               Absent(k) =>
                   /\ views # << >> => HeadingThen(View, SwotHeading[k], Placeholder[k])
                   /\ docs # << >> => BareHeading(Doc, SwotHeading[k])
        /\ views = << >> \/ docs = << >> =>
               \E k \in ListKeys \cap DOMAIN swot_data : ~Iterable(swot_data[k])

C8_Witness ==
    /\ Rendered
    /\ Absent("strategic_recommendations") /\ Absent("strengths") /\ ~Absent("weaknesses")
    /\ Truthy(swot_data["weaknesses"])
    /\ Has(View, Block("markdown", <<"*No strengths listed*">>))

\* The display blocks of a report before its Stock Price History section,
\* whose content is the answer of the financial-data collaborator.
ChartHeading == Block("markdown", <<"### Stock Price History (1 Year)">>)

BeforeChart(view) ==
    IF Has(view, ChartHeading)
    THEN SubSeq(view, 1, (CHOOSE i \in 1..Len(view) : view[i] = ChartHeading) - 1)
    ELSE view

RenderedTwice == pc = "rendered twice" /\ Len(docs) = 2 /\ Len(views) = 2

\* C10, as stated: two renderings of the same company name, AnalysisResult
\* and MarketSnapshot give the same document cells and the same display
\* blocks (the chart section, which is an external call, set aside).
C10_RenderingIdempotent ==
    RenderedTwice =>
        /\ docs[1] = docs[2]
        /\ BeforeChart(views[1]) = BeforeChart(views[2])

\* C10, amended: two renderings of the same inputs give documents that are
\* identical except for the "Generated: <date>" cell, which carries the day
\* of the rendering, and display blocks that are identical up to the stock
\* chart section; the basic document carries no date at all.
C10_IdempotentButForDate ==
    /\ (pc = "rendered" /\ docs # << >>) => docs[1][2] = date_cell(DateNames[clock])
    /\ RenderedTwice =>
           /\ Len(docs[1]) = Len(docs[2])
           /\ \A i \in 1..Len(docs[1]) : i # 2 => docs[1][i] = docs[2][i]
           /\ \A j \in 1..2 : \E d \in 1..Len(DateNames) : docs[j][2] = date_cell(DateNames[d])
           /\ docs[2][2] = date_cell(DateNames[clock])
           /\ BeforeChart(views[1]) = BeforeChart(views[2])
           /\ stock_data = PyNone => views[1] = views[2]
    /\ (pc = "done" /\ docs # << >>) =>
           \A d \in 1..Len(DateNames) : ~ShowsText(docs[1], <<DateNames[d]>>)

C10_Witness ==
    /\ RenderedTwice
    /\ docs[1] # docs[2]
    /\ stock_data # PyNone /\ views[1] # views[2]

\* ------------------------------------------------ claims on sanitize_text
\* The characters of the substitution table.
TableChars == {"U+2022", "U+2013", "U+2014", "U+2018", "U+2019", "U+201C", "U+201D", "U+2026"}

\* What the claim says becomes of one character.
Sanitized(a) ==
    CASE a \in {"U+2022", "U+2013", "U+2014"} -> "-"
      [] a \in {"U+2018", "U+2019"} -> "'"
      [] a \in {"U+201C", "U+201D"} -> "\""
      [] a = "U+2026" -> "..."
      [] a \notin TableChars /\ ord(a) > 255 -> "?"
      [] OTHER -> a

\* C9: sanitize_text replaces each character of the substitution table by
\* its ASCII equivalent, every other character above code point 255 by '?',
\* and keeps the rest unchanged in order; and no text of a written document
\* (company name, AnalysisResult and MarketSnapshot strings made of the
\* input) holds a table character or a character above code point 255.
C9_SanitizeText ==
    /\ pc # "sanitize" =>
           /\ Len(text_out) = Len(text_in)
           /\ \A i \in 1..Len(text_in) : text_out[i] = Sanitized(text_in[i])
    /\ \A n \in 1..Len(docs) : \A i \in 1..Len(docs[n]) :
           \A j \in 1..Len(docs[n][i].txt) :
               LET a == docs[n][i].txt[j] IN a \notin TableChars /\ ord(a) <= 255

C9_Witness ==
    /\ pc = "done" /\ Len(docs) = 2
    /\ Len(text_in) = MaxLen
    /\ text_in[1] = "U+2026" /\ text_in[2] = "U+4E2D"
    /\ text_out = <<"...", "?">> \o SubSeq(text_in, 3, MaxLen)
    /\ ShowsText(docs[1], text_out) /\ ShowsText(docs[2], text_out)

\* ------------------------------------------------------ claims on list items
\* The n entries that follow the first occurrence of `head` in blocks.
After(blocks, head, n) ==
    LET i == CHOOSE j \in 1..Len(blocks) : blocks[j] = head IN SubSeq(blocks, i + 1, i + n)

\* The entry that follows those, if any, is not a bullet line.
EndsAfter(blocks, head, n) ==
    LET i == CHOOSE j \in 1..Len(blocks) : blocks[j] = head IN
    i + n < Len(blocks) =>
        LET b == blocks[i + n + 1] IN
        b.op = "cell" \/ b.txt = << >> \/ b.txt[1] \notin {"- ", "U+2022 "}

\* The text of item x as the document shows it.
DocText(x) == [j \in 1..Len(py_str(x)) |-> Sanitized(py_str(x)[j])]

DocLines(xs) == [i \in 1..Len(xs) |-> MultiCell(<<"- ">> \o DocText(xs[i]))]

ViewLines(bullet, xs) == [i \in 1..Len(xs) |-> Block("markdown", <<bullet>> \o py_str(xs[i]))]

\* The items of list field k, when it holds a list with items.
HasItems(k) == k \in DOMAIN swot_data /\ swot_data[k].t = "list" /\ swot_data[k].xs # << >>

DocHeading(k) ==
    Cell(<<IF k = "strategic_recommendations" THEN "Strategic Recommendations"
           ELSE SwotHeading[k]>>)

ViewHeading(k) ==
    IF k = "strategic_recommendations" THEN Block("expander", <<"Strategic Recommendations">>)
    ELSE Block("markdown", <<SwotHeading[k]>>)

ItemsInDocument(doc, K) ==
    \A k \in K :
        HasItems(k) =>
            /\ Has(doc, DocHeading(k))
            /\ After(doc, DocHeading(k), Len(swot_data[k].xs)) = DocLines(swot_data[k].xs)
            /\ EndsAfter(doc, DocHeading(k), Len(swot_data[k].xs))

\* C11: every item of a list field is one '- <item>' line of the document
\* and one bullet line of the interactive report, under the field's heading,
\* in input order, none dropped or repeated; for strengths = ['Strong brand']
\* and weaknesses = [] the document has exactly the line '- Strong brand'
\* under Strengths and no line under Weaknesses, and the interactive report
\* shows 'No weaknesses listed' under Weaknesses.
C11_ListItemsInOrder ==
    /\ (pc = "rendered" /\ docs # << >>) => ItemsInDocument(Doc, ListKeys)
    /\ (pc = "done" /\ docs # << >>) => ItemsInDocument(Doc, SwotSet)
    /\ (pc = "rendered" /\ views # << >>) =>
           \A k \in ListKeys :
               HasItems(k) =>
                   LET bullet == IF k = "strategic_recommendations" THEN "- " ELSE "U+2022 " IN
                   /\ Has(View, ViewHeading(k))
                   /\ After(View, ViewHeading(k), Len(swot_data[k].xs))
                          = ViewLines(bullet, swot_data[k].xs)
                   /\ EndsAfter(View, ViewHeading(k), Len(swot_data[k].xs))
    /\ (pc \in {"rendered", "done"} /\ docs # << >> /\ swot_data = AcmeScenario) =>
           /\ After(Doc, Cell(<<"Strengths">>), 1) = <<MultiCell(<<"- ", "Strong brand">>)>>
           /\ BareHeading(Doc, "Weaknesses")
    /\ (pc = "rendered" /\ views # << >> /\ swot_data = AcmeScenario) =>
           HeadingThen(View, "Weaknesses", "*No weaknesses listed*")

C11_Witness ==
    /\ Rendered
    /\ HasItems("strengths") /\ Len(swot_data["strengths"].xs) = MaxItems
    /\ HasItems("strategic_recommendations")
    /\ After(Doc, Cell(<<"Strengths">>), 2)
           = <<MultiCell(<<"- ", "point ", "1", "'">>), MultiCell(<<"- ", "point ", "2", "'">>)>>

\* --------------------------------------------------- claims on propagation
Stage1Faults == {"classify", "search"}
Stage2Faults == {"scrape", "market data"}
Stage3Faults == {"generate", "malformed json"}

Aborted == pc = "done" /\ outcome \in {"error", "crash"} /\ docs = << >> /\ views = << >>

LastShown == ui[Len(ui)]

\* What deal_flow_app.py shows for an exception with text `what`.
ErrorBlock(what) == Block("error", <<"Error: ", what>>)

\* The texts of the exceptions a failing synthesis stage raises.
Stage3Texts == {"generation collaborator", "JSONDecodeError"}

\* The texts of the exceptions a failing identity resolution raises.
Stage1Texts == {"generation collaborator", "search collaborator"}

\* The text of the exception a failing renderer raises.
RenderTexts == {"TypeError"}

\* C12, as stated: a failure of stage 1 or of stage 3 aborts the run with a
\* message that tells which of the two stages failed (a message of a stage 1
\* failure is not one a stage 3 failure shows, and conversely), and a
\* failure of stage 2 never reaches the run-level handler.
C12_FailureNamesItsStage ==
    /\ faults \cap Stage1Faults # { } =>
           /\ Aborted /\ ui # << >>
           /\ \A w \in Stage3Texts : LastShown \notin {ErrorBlock(w), Block("traceback", <<w>>)}
    /\ faults \cap Stage3Faults # { } =>
           /\ Aborted /\ ui # << >>
           /\ \A w \in Stage1Texts : LastShown \notin {ErrorBlock(w), Block("traceback", <<w>>)}
    /\ (faults # { } /\ faults \subseteq Stage2Faults) => outcome \notin {"error", "crash"}

\* C12, amended: a failure of stage 1 or of stage 3 aborts the run before
\* any rendering and is reported with the text of the exception, by the one
\* run-level handler of deal_flow_app.py ("Error: <text>") or by the
\* traceback that ends analyst.py; a failure of stage 2 is absorbed, and the
\* run-level handler is reached only by a stage 1 or stage 3 failure or by
\* an exception of a renderer.
C12_FailurePropagation ==
    /\ "classify" \in faults =>
           Aborted /\ ui # << >> /\ LastShown = ErrorBlock("generation collaborator")
    /\ "search" \in faults =>
           /\ Aborted /\ ui # << >>
           /\ LastShown = IF variant = "rich" THEN ErrorBlock("search collaborator")
                          ELSE Block("traceback", <<"search collaborator">>)
    /\ "generate" \in faults =>
           /\ Aborted /\ ui # << >>
           /\ LastShown = IF variant = "rich" THEN ErrorBlock("generation collaborator")
                          ELSE Block("traceback", <<"generation collaborator">>)
    /\ "malformed json" \in faults =>
           /\ Aborted /\ ui # << >>
           /\ LastShown = IF variant = "rich" THEN ErrorBlock("JSONDecodeError")
                          ELSE Block("traceback", <<"JSONDecodeError">>)
    /\ (outcome \in {"error", "crash"} /\ faults \cap (Stage1Faults \cup Stage3Faults) = { }) =>
           /\ pc = "done" /\ "generate" \in Ops /\ swot_data # << >>
           /\ \E w \in RenderTexts : LastShown \in {ErrorBlock(w), Block("traceback", <<w>>)}

C12_Witness ==
    /\ "classify" \in faults /\ Aborted /\ LastShown = ErrorBlock("generation collaborator")

\* ------------------------------------------------ claims on external calls
\* How many times the run has made the call c.
Count(c) == Cardinality({i \in 1..Len(calls) : calls[i] = c})

\* C13, as stated: no collaborator operation is invoked more than once with
\* the same arguments in a run.
C13_EachCallOnce == \A i \in 1..Len(calls) : Count(calls[i]) = 1

\* C13, amended: nothing is retried, and every collaborator operation is
\* invoked at most once with the same arguments in a run, except the
\* one-year price history of the ticker, which is requested once by
\* fetch_stock_data and a second time by the price chart of the interactive
\* report when the snapshot was fetched and the report is rendered.
C13_OnceButHistory ==
    \A i \in 1..Len(calls) :
        IF calls[i].op = "history"
        THEN /\ Count(calls[i]) <= 2
             /\ Count(calls[i]) = 2 =>
                    /\ Truthy(stock_data) /\ "market data" \notin faults
                    /\ views # << >>
                    /\ calls[Len(calls)] = calls[i]
        ELSE Count(calls[i]) = 1

C13_Witness ==
    /\ outcome = "ok" /\ Truthy(stock_data)
    /\ Count([op |-> "history", arg |-> py_str(ticker)]) = 2
    /\ Count([op |-> "quote", arg |-> py_str(ticker)]) = 1

\* C14: in a run whose ticker resolution yields no ticker the
\* financial-data collaborator is never called: no quote/profile lookup and
\* no one-year history, for the return calculation or for the price chart;
\* the MarketSnapshot stays absent.
C14_NoTickerNoMarketCalls ==
    ~Truthy(ticker) =>
        /\ Ops \cap {"quote", "history"} = { }
        /\ stock_data = PyNone

C14_Witness ==
    /\ variant = "rich" /\ outcome = "ok" /\ views # << >> /\ docs # << >>
    /\ "classify" \in Ops /\ ~Truthy(ticker)
    /\ Ops \cap {"quote", "history"} = { }

\* ----------------------------------------------------- claims on the order
Before(i, op) == \E j \in 1..(i - 1) : calls[j].op = op

ResolverOps == {"classify", "search"}
HarvesterOps == {"quote", "history", "scrape"}

Parsed == /\ "generate" \in Ops
          /\ faults \cap {"generate", "malformed json"} = { }
          /\ pc \notin {"generate", "basic generate"}

RendererStarted == views # << >> \/ docs # << >> \/ DOMAIN files # { }

StageOf(i) ==
    CASE calls[i].op = "classify" -> 1
      [] calls[i].op = "quote" -> 2
      [] calls[i].op = "history" -> IF Before(i, "generate") THEN 6 ELSE 2
      [] calls[i].op = "search" -> 3
      [] calls[i].op = "scrape" -> 4
      [] calls[i].op = "generate" -> 5

MemoFile == company_name \o <<"_Memo.pdf">>

\* C16: the document is written to '<company name>_Memo.pdf', the company
\* name taken verbatim; a second rendering for the same company name writes
\* the same file, which then holds only the second document.
C16_FileNameAndOverwrite ==
    docs # << >> =>
        /\ DOMAIN files = {MemoFile}
        /\ files[MemoFile] = docs[Len(docs)]

C16_Witness ==
    /\ pc = "rendered twice" /\ Len(docs) = 2 /\ docs[1] # docs[2]
    /\ title(company_name) # company_name
    /\ DOMAIN files = {MemoFile}
    /\ files[MemoFile] = docs[2]

\* --------------------------------------------- claims on the MarketSnapshot
\* The text None, which is how Python prints an absent value.
ShowsNone(txt) == \E i \in 1..Len(txt) : txt[i] = "None"

MetricAbsent(k) == Truthy(stock_data) /\ stock_data.d[k] = PyNone

\* C17: for a MarketSnapshot with any of its metric fields absent the prompt
\* builder, the document renderer and the interactive renderer complete
\* without raising, and each absent metric is rendered as 'N/A' or left out.
C17_AbsentMetricsAsNA ==
    Truthy(stock_data) =>
        /\ pc # "prompt" => prompt # << >> /\ ~ShowsNone(prompt)
        /\ pc = "rendered" =>
               /\ Len(docs) = 1 /\ Len(views) = 1
               /\ \A i \in 1..Len(Doc) : ~ShowsNone(Doc[i].txt)
               /\ \A i \in 1..Len(View) : ~ShowsNone(View[i].txt)

\* A snapshot with price and without sector, whose sector is printed as None
\* by the prompt and by both renderers.
C17_Witness ==
    /\ pc = "rendered" /\ Len(docs) = 1 /\ Len(views) = 1
    /\ MetricAbsent("sector") /\ ~MetricAbsent("current_price")
    /\ Contains(prompt, <<"- Sector: ", "None", "\n">>)
    /\ ShowsText(Doc, <<"  |  Sector: ", "None">>)
    /\ Has(View, Block("markdown", <<"<b>Sector:</b> ", "None">>))

\* ----------------------------------------- claims on the market context
DigestHeading == "\nFINANCIAL METRICS (Live Market Data):\n"

DigestLabels == {"- Stock Ticker: ", "- Current Price: ", "- Market Cap: ", "- 52-Week Range: ",
                 "- Sector: ", "- Industry: ", "- Employees: ", "- Beta: "}

Mentions(txt, atom) == \E i \in 1..Len(txt) : txt[i] = atom

\* The label is in the text, each time followed by a value.
Labelled(txt, label) ==
    /\ Mentions(txt, label)
    /\ \A i \in 1..Len(txt) : txt[i] = label => (i < Len(txt) /\ txt[i + 1] # "\n")

\* C18: the synthesis prompt holds exactly one of two market contexts: for
\* an absent MarketSnapshot the statement that the company is private and no
\* financial-metrics digest; for a MarketSnapshot the digest (ticker, price,
\* market cap, 52-week range, sector, industry, employees, beta) and no
\* private-company statement.
C18_OneMarketContext ==
    prompt # << >> =>
        IF stock_data = PyNone
        THEN /\ Contains(prompt, PrivateNote)
             /\ ~Mentions(prompt, DigestHeading)
             /\ \A label \in DigestLabels : ~Mentions(prompt, label)
        ELSE /\ Mentions(prompt, DigestHeading)
             /\ \A label \in DigestLabels : Labelled(prompt, label)
             /\ Contains(prompt, <<"- Stock Ticker: ">> \o py_str(stock_data.d["ticker"]) \o <<"\n">>)
             /\ ~Contains(prompt, PrivateNote)

C18_Witness ==
    /\ prompt # << >> /\ Truthy(stock_data)
    /\ MetricAbsent("beta") /\ MetricAbsent("employees")
    /\ Contains(prompt, <<"- Beta: ", "N/A", "\n">>)
    /\ Contains(prompt, <<"- Stock Ticker: ", "SHOP", ".", "TO", "\n">>)
    /\ ~Contains(prompt, PrivateNote)

\* ------------------------------------------------ claims on the truncations
SearchMarker == IF variant = "basic"
                THEN ".\n\nReturn valid JSON with keys: ...\n\nSearch Context:\n"
                ELSE "SEARCH CONTEXT & MARKET DATA:\n"

ContentMarker == IF variant = "basic" THEN "\n\nWebsite Content:\n" ELSE "\n\nWEBSITE CONTENT:\n"

Place(txt, atom) == CHOOSE i \in 1..Len(txt) : txt[i] = atom

\* C19: analyze_website returns the first min(len(t), 5000) characters of
\* the scraped markdown t; the synthesis prompt embeds the first
\* min(len(c), 3000) (analyst.py) or min(len(c), 4000) (deal_flow_app.py)
\* characters of the harvested content c, and the search context in full.
C19_Truncations ==
    /\ (pc # "scrape" /\ reply.scrape.t = "str") =>
           /\ Len(website_content) = Min(Len(reply.scrape.s), 5000)
           /\ website_content = SubSeq(reply.scrape.s, 1, Len(website_content))
    /\ prompt # << >> =>
           LET n == Min(Len(website_content), IF variant = "basic" THEN 3000 ELSE 4000)
               s == Place(prompt, SearchMarker)
               c == Place(prompt, ContentMarker)
           IN  /\ Mentions(prompt, SearchMarker) /\ Mentions(prompt, ContentMarker)
               /\ SubSeq(prompt, s + 1, c - 1) = search_summary
               /\ SubSeq(prompt, c + 1, Len(prompt) - 1) = SubSeq(website_content, 1, n)

C19_Witness ==
    /\ variant = "basic" /\ prompt # << >> /\ reply.scrape.t = "str"
    /\ Len(reply.scrape.s) = 6000 /\ Len(website_content) = 5000
    /\ Len(search_summary) = 5200
    /\ Len(prompt) = Place(prompt, ContentMarker) + 3000 + 1
    /\ prompt[Len(prompt) - 1] = website_content[3000]
    /\ SubSeq(prompt, Place(prompt, SearchMarker) + 1, Place(prompt, SearchMarker) + 5200)
           = search_summary

\* ---------------------------------------------- claims on private companies
Classified == variant = "rich" /\ reply.classify.t = "str"

Trimmed == upper(strip(reply.classify.s))

MemoTitle == Cell(<<"Investment Memo: ">> \o title(company_name))

ReportTitle == Block("markdown", <<"<h1>">> \o title(company_name) \o <<"</h1>">>)

\* No market-data fetch, the private statement in the prompt, the
\* private-company notice in both renderers, no ticker in either title.
TreatedAsPrivate ==
    /\ Ops \cap {"quote", "history"} = { }
    /\ stock_data = PyNone
    /\ prompt # << >> => Contains(prompt, PrivateNote) /\ ~Mentions(prompt, DigestHeading)
    /\ \A i \in 1..Len(views) : views[i][1] = ReportTitle /\ Has(views[i], PrivateInfo)
    /\ \A i \in 1..Len(docs) : docs[i][1] = MemoTitle /\ Has(docs[i], PrivateCell)

\* C20: get_ticker_symbol maps the literal response PRIVATE to None, and the
\* company is then treated as private for the whole run; every other
\* response is returned as the ticker, trimmed and upper-cased.
C20_LiteralPrivate ==
    Classified =>
        IF reply.classify.s = <<"PRIVATE">>
        THEN ticker = PyNone /\ TreatedAsPrivate
        ELSE ticker = Str(Trimmed)

\* C20 (amended): a response that reads PRIVATE once trimmed and upper-cased
\* gives None, every other response is returned trimmed and upper-cased; a
\* run whose ticker is None or empty treats the company as private.
C20_PrivateAfterNormalising ==
    Classified =>
        /\ ticker = IF Trimmed = <<"PRIVATE">> THEN PyNone ELSE Str(Trimmed)
        /\ ~Truthy(ticker) => TreatedAsPrivate

C20_Witness ==
    /\ Classified /\ reply.classify.s = <<" ", "private", "\n">>
    /\ ticker = PyNone /\ outcome = "ok"
    /\ Len(views) = 1 /\ Len(docs) = 1 /\ views[1][1] = ReportTitle /\ docs[1][1] = MemoTitle
    /\ Has(views[1], PrivateInfo) /\ Has(docs[1], PrivateCell)
    /\ Contains(prompt, PrivateNote)

\* ----------------------------------------------- claims on the code lookups
Fetched == Truthy(stock_data) /\ reply.quote # PyNone

ExchangeCode == Get(reply.quote.d, "exchange", Str(<< >>))
CurrencyCode == Get(reply.quote.d, "currency", Str(<<"USD">>))

Listed(code, table) == Len(code.s) = 1 /\ code.s[1] \in DOMAIN table

\* The listed exchange codes give the listed name, every other code itself.
ExchangeLookedUp ==
    /\ Listed(ExchangeCode, exchange_names) =>
           stock_data.d["exchange"] = Str(<<exchange_names[ExchangeCode.s[1]]>>)
    /\ ExchangeCode = Str(<<"NMS">>) => stock_data.d["exchange"] = Str(<<"NASDAQ">>)
    /\ ~Listed(ExchangeCode, exchange_names) => stock_data.d["exchange"] = ExchangeCode

CurrencyListed ==
    /\ Listed(CurrencyCode, currency_symbols) =>
           stock_data.d["currency_symbol"] = Str(currency_symbols[CurrencyCode.s[1]])
    /\ CurrencyCode = Str(<<"HKD">>) => stock_data.d["currency_symbol"] = Str(<<"HK$">>)

\* C21: exchange and currency codes go through fixed tables and a code that
\* is not listed passes through unchanged: the displayed exchange is the
\* code itself, the displayed currency symbol is the code itself.
C21_UnlistedCodesUnchanged ==
    Fetched =>
        /\ ExchangeLookedUp /\ CurrencyListed
        /\ ~Listed(CurrencyCode, currency_symbols) =>
               stock_data.d["currency_symbol"] = CurrencyCode

\* C21 (amended): an unlisted exchange code is displayed as it is, an
\* unlisted currency code gives the code followed by one space as symbol.
C21_UnlistedCurrencySpaced ==
    Fetched =>
        /\ ExchangeLookedUp /\ CurrencyListed
        /\ stock_data.d["currency"] = CurrencyCode
        /\ ~Listed(CurrencyCode, currency_symbols) =>
               stock_data.d["currency_symbol"] = Str(CurrencyCode.s \o <<" ">>)

C21_Witness ==
    /\ Fetched
    /\ ExchangeCode = Str(<<"nms">>) /\ stock_data.d["exchange"] = Str(<<"nms">>)
    /\ CurrencyCode = Str(<<"SEK">>) /\ stock_data.d["currency_symbol"] = Str(<<"SEK", " ">>)

\* -------------------------------------------- claims on the one-year return
Closes == reply.history.xs

Derived == Fetched /\ reply.history # PyNone /\ Len(Closes) >= 2

ReturnNA ==
    \/ Contains(prompt, <<"- 1-Year Return: ", "N/A">>)
    \/ \E i \in 1..Len(docs) : ShowsText(docs[i], <<"1-Year Return: N/A">>)
    \/ \E i \in 1..Len(views) : Has(views[i], Block("metric", <<"1-Year Return", "=", "N/A">>))

\* C22: the one-year return of the MarketSnapshot is
\* ((last close - first close) / first close) * 100 for a series of at least
\* two closes and absent for a shorter one; a derived return, a return of
\* exactly 0 included, is shown as a value and not as 'N/A' in the prompt and
\* in both renderers.
C22_DerivedReturnShown ==
    (Fetched /\ reply.history # PyNone) =>
        /\ Len(Closes) >= 2 =>
               stock_data.d["year_return"]
                   = Num(((Closes[Len(Closes)] - Closes[1]) * 100) \div Closes[1])
        /\ Len(Closes) < 2 => stock_data.d["year_return"] = PyNone
        /\ Len(Closes) >= 2 => ~ReturnNA

\* A year that ends at the price it began with: the return 0 is derived and
\* the prompt and both renderers say N/A.
C22_Witness ==
    /\ Derived /\ Closes[Len(Closes)] = Closes[1]
    /\ stock_data.d["year_return"] = Num(0)
    /\ outcome = "ok" /\ Len(docs) = 1 /\ Len(views) = 1
    /\ Contains(prompt, <<"- 1-Year Return: ", "N/A">>)
    /\ ShowsText(docs[1], <<"1-Year Return: N/A">>)
    /\ Has(views[1], Block("metric", <<"1-Year Return", "=", "N/A">>))

\* ------------------------------------------------ claims on the canonical URL
Results == reply.search.xs

\* The website search returned results and the top one carries no URL.
TopWithoutUrl ==
    /\ reply.search # PyNone /\ Results # << >>
    /\ ~Truthy(Get(Results[1], "url", Str(<< >>)))

NullList(k) == k \in DOMAIN swot_data /\ swot_data[k] = PyNone

NullSwotList == \E k \in ListKeys \ {"strategic_recommendations"} : NullList(k)

\* C24: a list field that is present and null is handled like an absent one
\* by both renderers: each treats it as an empty list and completes without
\* raising, so that no run ends in an error after its interactive report has
\* been displayed.
C24_NullListsAsEmpty ==
    (variant = "rich" /\ \E k \in ListKeys : NullList(k)) =>
        /\ views # << >> => outcome # "error"
        /\ pc = "done" => outcome = "ok" /\ Len(views) = 1 /\ Len(docs) = 1
        /\ \A k \in ListKeys \ {"strategic_recommendations"} :
               (NullList(k) /\ views # << >>) =>
                   Has(views[1], Block("markdown", <<Placeholder[k]>>))

\* The report of a result with a null SWOT list is displayed, and the run
\* then ends in the handler without a document.
C24_Witness ==
    /\ variant = "rich" /\ NullSwotList
    /\ Len(views) = 1 /\ docs = << >> /\ files = NoFiles
    /\ pc = "done" /\ outcome = "error"
    /\ ui[Len(ui)].op = "error"

\* --------------------------------- claims on the public/private presentation
PromptPrivate == Contains(prompt, PrivateNote)

DocPrivate == Has(docs[1], PrivateCell)

ViewPrivate == Has(views[1], PrivateInfo)

\* The titles that carry the ticker in parentheses.
DocTitleTicker == Mentions(docs[1][1].txt, " (")

ViewTitleTicker == Mentions(views[1][1].txt, " <span>(")

\* C25: within a run the prompt states that the company is private if and
\* only if the document shows the Private Company notice, if and only if
\* the interactive report shows it; and a report whose title shows a ticker
\* never shows the notice.
C25_PresentationConsistent ==
    variant = "rich" =>
        /\ views # << >> =>
               /\ PromptPrivate <=> ViewPrivate
               /\ ViewTitleTicker => ~ViewPrivate
        /\ docs # << >> =>
               /\ PromptPrivate <=> DocPrivate
               /\ ViewPrivate <=> DocPrivate
               /\ DocTitleTicker => ~DocPrivate

\* A run whose snapshot has no price: the prompt carries the financial
\* digest, both titles carry the ticker, and both renderers show the
\* Private Company notice.
C25_Witness ==
    /\ variant = "rich" /\ outcome = "ok" /\ Len(views) = 1 /\ Len(docs) = 1
    /\ Truthy(stock_data) /\ MetricAbsent("current_price")
    /\ ~PromptPrivate /\ Mentions(prompt, DigestHeading)
    /\ ViewPrivate /\ DocPrivate
    /\ ViewTitleTicker /\ DocTitleTicker

\* ------------------------------------------- claims on the progress widgets
Cleared == progress_bar = "empty" /\ status_text = "empty"

Ended == variant = "rich" /\ pc = "done"

\* C26: a run started with a company name ends with the progress bar and
\* the status text cleared on every terminating path (completion, no
\* website found, an exception caught by the run-level handler); a run
\* started with an empty company name shows an error and calls no
\* collaborator.
C26_WidgetsClearedAtEnd ==
    Ended =>
        IF company_name = << >>
        THEN /\ outcome = "no_input" /\ calls = << >>
             /\ ui = <<Block("error", <<"Please enter a company name">>)>>
        ELSE /\ outcome \in {"ok", "no_website", "error"}
             /\ Cleared

\* A run that found no website has ended with the bar at 35 and the status
\* text of the search still shown.
C26_Witness ==
    /\ Ended /\ outcome = "no_website" /\ CouldNotFind
    /\ progress_bar = "35"
    /\ status_text = "Searching for company information..."

====
